---- MODULE Spec2Model ----
(***************************************************************************)
(* Model of the per-swarm peer-to-peer instance (package ptp): the Swarm   *)
(* table with its IP/MAC indexes, the instance lifecycle (AssignInterface, *)
(* Run, Close), the process-wide ActiveInterfaces registry, the hole-punch *)
(* mutex, Swarm.RunPeer and discoverIP.                                    *)
(***************************************************************************)
EXTENDS Integers, Sequences, FiniteSets, TLC

VARIABLES
    \* ---- Swarm (part_001) ----
    heap,           \* the NetworkPeer objects, by reference
    peers,          \* Swarm.peers      : id  -> *NetworkPeer
    tableIPID,      \* Swarm.tableIPID  : ip  -> id
    tableMacID,     \* Swarm.tableMacID : mac -> id
    deleted,        \* ids removed by a successful delete and not added again since
    lastErr,        \* what the last Swarm.operate returned
    \* ---- PeerToPeer (part_000) and its device (tuntap_darwin.go) ----
    Interface,          \* the TAPDarwin object
    setup,              \* how far PrepareInterfaces has come
    ActiveInterfaces,   \* the process-wide list of reserved IPs
    Shutdown,
    ReadyToStop,
    closed,             \* calls made so far: Dht.Close, UDPSocket.Close, file.Close
    pos,                \* per invocation of Close: the step it is at
    phase,              \* per invocation of Close: where stopPeers is
    snap,               \* per invocation of Close: the map stopPeers got from Swarm.Get
    todo,               \* per invocation of Close: ids stopPeers has still to visit
    log,                \* per invocation of Close: what it has done so far, in order
    runPc,              \* where the Run loop is
    runSnap,            \* the map removeStoppedPeers got from Swarm.Get
    \* ---- the hole-punch mutex of every instance of the process ----
    HolePunching,       \* per mutex: locked or not
    hpPc,               \* per peer driver: where it is with the mutex
    \* ---- Swarm.RunPeer ----
    rpPc,               \* per call of RunPeer: where it is
    rpId,               \* per call of RunPeer: the id it was given
    rpReaders,          \* holders of the read lock of Swarm.lock
    spawned,            \* per id: goroutines started by "go l.peers[id].Run(p)"
    begun,              \* per id: of these, the ones that have begun to run
    \* ---- discoverIP ----
    dPc,                \* where discoverIP is
    dI,                 \* its counter i
    dSince,             \* time.Since(lastRequest) in ms, as far as it matters
    dQueries,           \* the last byte of the candidate of every IP_INFO query built
    claimed,            \* the last bytes of the addresses the answering peers hold
    \* ---- PrepareInterfaces with RequestIP and ReportIP ----
    pPc,                \* where PrepareInterfaces is
    pArg,               \* its ip argument
    pEnv,               \* whether the device file opens and the link comes up
    pRet,               \* the error it returned ("nil" for none)
    pLog,               \* messages to the rendezvous and AssignInterface calls, in order
    Dht,                \* Dht.IP and Dht.Network
    rqAttempt,          \* RequestIP: attempt
    rqSince,            \* RequestIP: time.Since(requestedAt) in ms
    rqSent,             \* RequestIP: calls of sendDHCP(nil, nil) so far
    \* ---- New with waitForRemotePort ----
    nPc,                \* where New is
    nArg,               \* its arguments mac, keyfile (the keys the file yields), key, ttl
    nRet,               \* what it returned: the instance or nil
    nLog,               \* the socket calls it made, in order
    Crypter,            \* Crypter.Keys, Crypter.ActiveKey, Crypter.Active
    remotePort,         \* UDPSocket.remotePort
    echoed,             \* the port of the echo replies received so far, 0 for none
    wSince,             \* waitForRemotePort: time.Since(started) in ms
    wRet,               \* what waitForRemotePort returned
    \* ---- ListenInterface ----
    lPc,                \* where the device reader is
    lErr,               \* what its last ReadPacket returned as error
    lReads,             \* packets ReadPacket has returned
    lHandled,           \* goroutines started by "go p.handlePacket(...)"
    \* ---- a caller of Swarm.Get ----
    got,                \* the map Swarm.Get returned to it
    who,                \* who took the last step: the caller on its map, or the Swarm
    \* ---- the introduction string ----
    iPc,                \* "idle", "built" or "received" (a string is there), "parsed"
    iSent,              \* what the sender put into the string it built
    iText,              \* the introduction string, as its pieces
    iErr,               \* ParseIntroString: the error ("nil" for none)
    iHs,                \* ParseIntroString: the handshake
    \* ---- ProxyManager and checkProxies ----
    proxyList,          \* ProxyManager: the relays it holds, key -> proxy
    hasChanges,         \* ProxyManager.hasChanges
    reported,           \* the lists the last checkProxies handed to sendReportProxy
    measured,           \* the relays the last checkProxies called Measure on
    pxPc,               \* the Run loop around checkProxies: "tick" or "sleep"
    \* ---- Endpoint.Measure and checkPeers ----
    EndpointsHeap,      \* per NetworkPeer object: its EndpointsHeap
    sentAgo,            \* per NetworkPeer object and place in the heap: time since the last
                        \* latency message to that endpoint
    latencyTo,          \* the endpoints the last checkPeers sent a latency message to
    cpPc,               \* the Run loop around checkPeers: "tick" or "sleep"
    \* ---- the time Run takes to return ----
    sinceReady          \* ms discoverIP has slept since Close set ReadyToStop

swarmVars == <<heap, peers, tableIPID, tableMacID>>
callVars  == <<deleted, lastErr>>
ifaceVars == <<Interface, ActiveInterfaces>>
closeVars == <<Shutdown, ReadyToStop, closed, pos, phase, snap, todo, log>>
runVars   == <<runPc, runSnap>>

hpVars    == <<HolePunching, hpPc>>
rpVars    == <<rpPc, rpId, rpReaders, spawned, begun>>
discoverVars == <<dPc, dI, dSince, dQueries, claimed>>
prepVars  == <<pPc, pArg, pEnv, pRet, pLog, Dht, rqAttempt, rqSince, rqSent>>
newVars   == <<nPc, nArg, nRet, nLog, Crypter, remotePort, echoed, wSince, wRet>>
listenVars == <<lPc, lErr, lReads, lHandled>>
getVars   == <<got, who>>
introVars == <<iPc, iSent, iText, iErr, iHs>>
proxyVars == <<proxyList, hasChanges, reported, measured, pxPc>>
latVars   == <<EndpointsHeap, sentAgo, latencyTo, cpPc>>
pollVars  == <<sinceReady>>
tickVars  == <<proxyVars, latVars, pollVars>>
laterVars == <<getVars, introVars, tickVars>>
moreVars  == <<newVars, listenVars, laterVars>>
otherVars == <<hpVars, rpVars, discoverVars, prepVars, moreVars>>

vars == <<swarmVars, callVars, ifaceVars, setup, closeVars, runVars, otherVars>>

\* ------------------------------------------------------------------------
\* Bounds
\* ------------------------------------------------------------------------
MaxPeers == 2

Ids  == 1..MaxPeers
Refs == 1..MaxPeers

\* Overlay addresses and hardware addresses the inputs are drawn from.
IPs  == {"10.1.0.5", "10.1.0.6"}
Macs == {"06:00:00:00:00:01", "06:00:00:00:00:02"}

NilIP  == "nil-ip"      \* a nil net.IP
NilMac == "nil-mac"     \* a nil net.HardwareAddr

\* The address the local device is given
LocalIPs == {"10.1.0.7"}

PeerStates == {"INIT", "CONNECTED", "DISCONNECT", "COOLDOWN", "STOP"}

\* ------------------------------------------------------------------------
\* net.IP.String / net.HardwareAddr.String
\* ------------------------------------------------------------------------
\* A nil net.IP prints as "<nil>", a nil HardwareAddr as the empty string.
IPString(ip)   == IF ip = NilIP THEN "<nil>" ELSE ip
MacString(mac) == IF mac = NilMac THEN "" ELSE mac

\* ------------------------------------------------------------------------
\* Maps as partial functions
\* ------------------------------------------------------------------------
MapPut(m, k, v) == [x \in (DOMAIN m) \cup {k} |-> IF x = k THEN v ELSE m[x]]
MapDel(m, k)    == [x \in (DOMAIN m) \ {k} |-> m[x]]
EmptyMap        == [x \in {} |-> x]

\* ------------------------------------------------------------------------
\* Swarm
\* ------------------------------------------------------------------------
NewPeer(ip, mac) ==
    [PeerLocalIP |-> ip, PeerHW |-> mac, State |-> "INIT", Running |-> FALSE]

\* Swarm.updateTables, the two indexes as a pair
updateTables(tIP, tMac, id, ip, mac) ==
    [ip  |-> IF ip  # "" THEN MapPut(tIP, ip, id)   ELSE tIP,
     mac |-> IF mac # "" THEN MapPut(tMac, mac, id) ELSE tMac]

\* Swarm.deleteTables
deleteTables(tIP, tMac, ip, mac) ==
    [ip  |-> IF ip  # "" /\ ip  \in DOMAIN tIP  THEN MapDel(tIP, ip)   ELSE tIP,
     mac |-> IF mac # "" /\ mac \in DOMAIN tMac THEN MapDel(tMac, mac) ELSE tMac]

\* Swarm.operate, action OperateUpdate: the peer is stored by reference.
OperateUpdate(id, r) ==
    LET peer == heap[r]
        ip   == IF peer.PeerLocalIP # NilIP THEN IPString(peer.PeerLocalIP) ELSE ""
        mac  == IF peer.PeerHW # NilMac THEN MacString(peer.PeerHW) ELSE ""
        t    == updateTables(tableIPID, tableMacID, id, ip, mac)
    IN  /\ peers' = MapPut(peers, id, r)
        /\ tableIPID' = t.ip
        /\ tableMacID' = t.mac

\* What Swarm.operate returns
OperateError(action, id) ==
    IF action = "OperateDelete" /\ id \notin DOMAIN peers
    THEN "can't delete peer: entry doesn't exists" ELSE "nil"

\* Swarm.operate, action OperateDelete
OperateDelete(id) ==
    IF id \notin DOMAIN peers
    THEN UNCHANGED <<peers, tableIPID, tableMacID>>
    ELSE LET peer == heap[peers[id]]
             t    == deleteTables(tableIPID, tableMacID,
                                  IPString(peer.PeerLocalIP), MacString(peer.PeerHW))
         IN  /\ tableIPID' = t.ip
             /\ tableMacID' = t.mac
             /\ peers' = MapDel(peers, id)

\* Swarm.Delete has no result: the error of operate is dropped.
DeleteReturns(err) == "no value"

\* Swarm.GetID: the id and whether the lookup succeeded
GetID(ip) ==
    IF ip \in DOMAIN tableIPID THEN [id |-> tableIPID[ip], ok |-> TRUE]
                               ELSE [id |-> "", ok |-> FALSE]

\* Swarm.Length
Length == Cardinality(DOMAIN peers)

\* Swarm.Update called with a newly built peer: the caller fills a new object
\* for id with ip and mac and hands it to Update.
SwarmUpdateNew(id, ip, mac) ==
    /\ heap' = [heap EXCEPT ![id] = NewPeer(ip, mac)]
    /\ LET peer == heap'[id]
           sip  == IF peer.PeerLocalIP # NilIP THEN IPString(peer.PeerLocalIP) ELSE ""
           smac == IF peer.PeerHW # NilMac THEN MacString(peer.PeerHW) ELSE ""
           t    == updateTables(tableIPID, tableMacID, id, sip, smac)
       IN  /\ peers' = MapPut(peers, id, id)
           /\ tableIPID' = t.ip
           /\ tableMacID' = t.mac
    /\ deleted' = deleted \ {id}
    /\ lastErr' = OperateError("OperateUpdate", id)

\* Swarm.Update called with the peer the table already holds under id (as
\* stopPeers does).
SwarmUpdateSame(id) ==
    /\ id \in DOMAIN peers
    /\ OperateUpdate(id, peers[id])
    /\ deleted' = deleted \ {id}
    /\ lastErr' = OperateError("OperateUpdate", id)
    /\ UNCHANGED heap

\* Swarm.Delete. No caller holds the removed object here, so it is dropped.
SwarmDelete(id) ==
    /\ OperateDelete(id)
    /\ deleted' = IF id \in DOMAIN peers THEN deleted \cup {id} ELSE deleted
    /\ lastErr' = OperateError("OperateDelete", id)
    /\ heap' = [heap EXCEPT ![id] = NewPeer(NilIP, NilMac)]

\* ------------------------------------------------------------------------
\* The device (TAPDarwin)
\* ------------------------------------------------------------------------
NilSubnet == "nil-subnet"

\* newTAP(tool, "127.0.0.1", "00:00:00:00:00:00", "", mtu, pmtu), as New calls it:
\* the file is nil, the flags and the status have their zero values.
newTAP ==
    [IP |-> "127.0.0.1", Subnet |-> NilSubnet, Mask |-> "ffffff00",
     Mac |-> "00:00:00:00:00:00", file |-> "nil", Configured |-> FALSE, Auto |-> FALSE,
     Status |-> "InterfaceWaiting"]

\* net.ParseMAC: the colon form and the hyphen form are accepted
ParseMAC(s) ==
    IF s \in Macs THEN s
    ELSE IF s = "06-00-00-00-00-01" THEN "06:00:00:00:00:01"
    ELSE NilMac

\* PeerToPeer.validateMac; gen is what GenerateMAC draws
validateMac(mac, gen) ==
    IF mac # "" THEN ParseMAC(mac) ELSE gen

\* TAPDarwin.Configure: linkOk says whether ifconfig brought the link up.
\* The tool path is never empty (GetConfigurationTool), so that check passes.
Configure(t, linkOk) ==
    LET t1 == [t EXCEPT !.Status = "InterfaceConfiguring"] IN
    IF t1.IP = NilIP THEN [tap |-> t1, err |-> FALSE]
    ELSE IF ~linkOk THEN [tap |-> [t1 EXCEPT !.Status = "InterfaceBroken"], err |-> TRUE]
    ELSE [tap |-> [t1 EXCEPT !.Status = "InterfaceConfigured"], err |-> FALSE]

\* Deconfigure that leaves the status as it is
Deconfigure_keepsStatus(t) == [t EXCEPT !.Configured = FALSE]

\* TAPDarwin.Deconfigure
Deconfigure(t) == [t EXCEPT !.Status = "InterfaceDeconfigured", !.Configured = FALSE]

\* TAPDarwin.MarkConfigured
MarkConfigured(t) == [t EXCEPT !.Configured = TRUE]

\* TAPDarwin.Close: an error without closing when the file is nil; otherwise
\* file.Close() is called (again, when the file is closed already).
TAPCloseCallsFile(t) == t.file # "nil"
TAPClose(t) == IF t.file = "nil" THEN t ELSE [t EXCEPT !.file = "closed"]

\* TAPDarwin.IsBroken
IsBroken(t) == FALSE

\* ------------------------------------------------------------------------
\* PeerToPeer.AssignInterface
\* ------------------------------------------------------------------------
\* openOk: whether the device file opens. The result is the device, the
\* registry and whether an error is returned.
AssignInterface(t, active, openOk, linkOk) ==
    IF t.Configured THEN [tap |-> t, active |-> active, err |-> FALSE]
    ELSE IF t.IP = NilIP /\ ~t.Auto THEN [tap |-> t, active |-> active, err |-> TRUE]
    ELSE IF t.Mac = NilMac THEN [tap |-> t, active |-> active, err |-> TRUE]
    ELSE IF ~openOk THEN [tap |-> t, active |-> active, err |-> TRUE]
    ELSE LET c == Configure([t EXCEPT !.file = "open"], linkOk) IN
         IF c.err THEN [tap |-> c.tap, active |-> active, err |-> TRUE]
         ELSE [tap    |-> IF ~c.tap.Auto THEN MarkConfigured(c.tap) ELSE c.tap,
               active |-> Append(active, c.tap.IP),
               err    |-> FALSE]

\* PeerToPeer.deactivateInterface: the first entry equal to the device's IP
\* is taken out (a nil IP equals a nil IP).
Matches(active, ip) == {i \in 1..Len(active) : active[i] = ip}
FirstMatch(active, ip) == CHOOSE i \in Matches(active, ip) : \A j \in Matches(active, ip) : i <= j
DropAt(seq, i) == SubSeq(seq, 1, i - 1) \o SubSeq(seq, i + 1, Len(seq))
deactivateInterface(active, ip) ==
    IF Matches(active, ip) = {} THEN active ELSE DropAt(active, FirstMatch(active, ip))

\* ------------------------------------------------------------------------
\* PeerToPeer.PrepareInterfaces, by the form of the ip argument
\* ------------------------------------------------------------------------
\* "dhcp" / "auto": RequestIP got ip from the rendezvous, sets it and assigns.
PrepareDHCP(ip, openOk, linkOk) ==
    /\ setup = "new"
    /\ LET a == AssignInterface([Interface EXCEPT !.IP = ip], ActiveInterfaces, openOk, linkOk)
       IN  /\ Interface' = a.tap
           /\ ActiveInterfaces' = a.active
           /\ setup' = IF a.err THEN "error" ELSE "ok"

\* "discover": the device is marked auto, its IP and subnet are cleared.
PrepareDiscover(openOk, linkOk) ==
    /\ setup = "new"
    /\ LET a == AssignInterface([Interface EXCEPT !.Auto = TRUE, !.IP = NilIP,
                                                  !.Subnet = NilSubnet],
                                ActiveInterfaces, openOk, linkOk)
       IN  /\ Interface' = a.tap
           /\ ActiveInterfaces' = a.active
           /\ setup' = "ok"

\* a literal address: SetIP, then ReportIP assigns the interface.
PrepareStatic(ip, openOk, linkOk) ==
    /\ setup = "new"
    /\ LET a == AssignInterface([Interface EXCEPT !.IP = ip], ActiveInterfaces, openOk, linkOk)
       IN  /\ Interface' = a.tap
           /\ ActiveInterfaces' = a.active
           /\ setup' = IF a.err THEN "error" ELSE "ok"

\* ------------------------------------------------------------------------
\* PeerToPeer.Close, one invocation c
\* ------------------------------------------------------------------------
Closers == {"close1", "close2"}

\* The steps of Close in the order of its body
CloseSteps_shutdownFirst ==
    <<"Shutdown", "deactivateInterface", "stopPeers", "stopDHT", "stopSocket",
      "stopInterface", "ReadyToStop">>

CloseSteps ==
    <<"deactivateInterface", "stopPeers", "Shutdown", "stopDHT", "stopSocket",
      "stopInterface", "ReadyToStop">>

NotCalled == 0
Returned  == Len(CloseSteps) + 1
At(c, step) == pos[c] \in 1..Len(CloseSteps) /\ CloseSteps[pos[c]] = step
Advance(c)  == pos' = [pos EXCEPT ![c] = pos[c] + 1]
Did(c, what) == log' = [log EXCEPT ![c] = Append(log[c], what)]

\* The state stopPeers sets on every peer
StopPeersState_stop == "STOP"

StopPeersState == "DISCONNECT"

\* NetworkPeer.SetState on the object r
SetState(h, r, state) == [h EXCEPT ![r].State = state]

CloseCall(c) ==
    /\ pos[c] = NotCalled /\ setup # "new"
    /\ Advance(c)
    /\ UNCHANGED <<swarmVars, callVars, ifaceVars, setup, Shutdown, ReadyToStop, closed, phase,
                   snap, todo, log, runVars, otherVars>>

CloseDeactivate(c) ==
    /\ At(c, "deactivateInterface")
    /\ ActiveInterfaces' = deactivateInterface(ActiveInterfaces, Interface.IP)
    /\ Did(c, "deactivate")
    /\ Advance(c)
    /\ UNCHANGED <<swarmVars, callVars, Interface, setup, Shutdown, ReadyToStop, closed, phase,
                   snap, todo, runVars, otherVars>>

\* stopPeers: peers := p.Swarm.Get()
StopPeersGet(c) ==
    /\ At(c, "stopPeers") /\ phase[c] = "get"
    /\ snap' = [snap EXCEPT ![c] = peers]
    /\ todo' = [todo EXCEPT ![c] = DOMAIN peers]
    /\ phase' = [phase EXCEPT ![c] = "loop"]
    /\ Did(c, "disconnectPeers")
    /\ UNCHANGED <<swarmVars, callVars, ifaceVars, setup, Shutdown, ReadyToStop, closed, pos,
                   runVars, otherVars>>

\* stopPeers: one iteration of the range loop, peer.SetState then Swarm.Update
StopPeersSet(c, id) ==
    /\ At(c, "stopPeers") /\ phase[c] = "loop" /\ id \in todo[c]
    /\ LET r    == snap[c][id]
           h    == SetState(heap, r, StopPeersState)
           peer == h[r]
           ip   == IF peer.PeerLocalIP # NilIP THEN IPString(peer.PeerLocalIP) ELSE ""
           mac  == IF peer.PeerHW # NilMac THEN MacString(peer.PeerHW) ELSE ""
           t    == updateTables(tableIPID, tableMacID, id, ip, mac)
       IN  /\ heap' = h
           /\ peers' = MapPut(peers, id, r)
           /\ tableIPID' = t.ip
           /\ tableMacID' = t.mac
    /\ todo' = [todo EXCEPT ![c] = todo[c] \ {id}]
    /\ UNCHANGED <<callVars, ifaceVars, setup, Shutdown, ReadyToStop, closed, pos, phase,
                   snap, log, runVars, otherVars>>

\* stopPeers: the wait loop ends because the swarm is empty ...
StopPeersDrained(c) ==
    /\ At(c, "stopPeers") /\ phase[c] = "loop" /\ todo[c] = {}
    /\ Length = 0
    /\ phase' = [phase EXCEPT ![c] = "get"]
    /\ snap' = [snap EXCEPT ![c] = EmptyMap]
    /\ Did(c, "wait")
    /\ Advance(c)
    /\ UNCHANGED <<swarmVars, callVars, ifaceVars, setup, Shutdown, ReadyToStop, closed, todo, runVars,
                  otherVars>>

\* ... or because 5 s have passed with peers left in it.
StopPeersTimeout(c) ==
    /\ At(c, "stopPeers") /\ phase[c] = "loop" /\ todo[c] = {}
    /\ Length > 0
    /\ phase' = [phase EXCEPT ![c] = "get"]
    /\ snap' = [snap EXCEPT ![c] = EmptyMap]
    /\ Did(c, "wait")
    /\ Advance(c)
    /\ UNCHANGED <<swarmVars, callVars, ifaceVars, setup, Shutdown, ReadyToStop, closed, todo, runVars,
                  otherVars>>

CloseShutdown(c) ==
    /\ At(c, "Shutdown")
    /\ Shutdown' = TRUE
    /\ Did(c, "shutdown")
    /\ Advance(c)
    /\ UNCHANGED <<swarmVars, callVars, ifaceVars, setup, ReadyToStop, closed, phase, snap, todo, runVars,
                  otherVars>>

\* stopDHT: p.Dht.Close()
CloseStopDHT(c) ==
    /\ At(c, "stopDHT")
    /\ closed' = [closed EXCEPT !.dht = closed.dht + 1]
    /\ Did(c, "closeDht")
    /\ Advance(c)
    /\ UNCHANGED <<swarmVars, callVars, ifaceVars, setup, Shutdown, ReadyToStop, phase, snap, todo, runVars,
                  otherVars>>

\* stopSocket: p.UDPSocket.Close()
CloseStopSocket(c) ==
    /\ At(c, "stopSocket")
    /\ closed' = [closed EXCEPT !.socket = closed.socket + 1]
    /\ Did(c, "closeSocket")
    /\ Advance(c)
    /\ UNCHANGED <<swarmVars, callVars, ifaceVars, setup, Shutdown, ReadyToStop, phase, snap, todo, runVars,
                  otherVars>>

\* stopInterface: p.Interface.Close()
CloseStopInterface(c) ==
    /\ At(c, "stopInterface")
    /\ closed' = [closed EXCEPT !.file = closed.file
                                          + (IF TAPCloseCallsFile(Interface) THEN 1 ELSE 0)]
    /\ Interface' = TAPClose(Interface)
    /\ Did(c, "closeDevice")
    /\ Advance(c)
    /\ UNCHANGED <<swarmVars, callVars, ActiveInterfaces, setup, Shutdown, ReadyToStop, phase, snap,
                   todo, runVars, otherVars>>

CloseReady(c) ==
    /\ At(c, "ReadyToStop")
    /\ ReadyToStop' = TRUE
    /\ Did(c, "ready")
    /\ Advance(c)
    /\ UNCHANGED <<swarmVars, callVars, ifaceVars, setup, Shutdown, closed, phase, snap, todo, runVars,
                  otherVars>>

\* ------------------------------------------------------------------------
\* PeerToPeer.Run
\* ------------------------------------------------------------------------
\* Run is called once the interface is prepared.
RunStart ==
    /\ runPc = "idle" /\ setup = "ok"
    /\ runPc' = "loop"
    /\ UNCHANGED <<swarmVars, callVars, ifaceVars, setup, closeVars, runSnap, otherVars>>

\* Shutdown and ReadyToStop are both set: the loop ends. (With Shutdown alone
\* the loop sleeps one second and looks again.)
RunReturn ==
    /\ runPc = "loop" /\ Shutdown /\ ReadyToStop
    /\ runPc' = "returned"
    /\ UNCHANGED <<swarmVars, callVars, ifaceVars, setup, closeVars, runSnap, otherVars>>

\* removeStoppedPeers: peers := p.Swarm.Get()
RunGet ==
    /\ runPc = "loop" /\ ~Shutdown
    /\ runSnap' = peers
    /\ runPc' = "remove"
    /\ UNCHANGED <<swarmVars, callVars, ifaceVars, setup, closeVars, otherVars>>

\* The peers of the snapshot that are in state STOP when the loop reads them
Stopped(s) == {id \in DOMAIN s : heap[s[id]].State = "STOP"}

\* removeStoppedPeers: the range loop. The first peer found in STOP is
\* deleted and the loop is left; the map is ranged over in no fixed order.
removeStoppedPeers(id) ==
    /\ id \in Stopped(runSnap)
    /\ OperateDelete(id)

RunRemove ==
    /\ runPc = "remove"
    /\ IF Stopped(runSnap) = {}
       THEN UNCHANGED <<peers, tableIPID, tableMacID>>
       ELSE \E id \in Ids : removeStoppedPeers(id)
    /\ runSnap' = EmptyMap
    /\ runPc' = "checks"
    /\ UNCHANGED <<heap, callVars, ifaceVars, setup, closeVars, otherVars>>

\* The rest of the tick with nothing to configure: checkLastDHTUpdate,
\* checkProxies, checkPeers, the sleep, and IsBroken, which is false.
RunChecks ==
    /\ runPc = "checks"
    /\ ~IsBroken(Interface)
    /\ runPc' = "loop"
    /\ UNCHANGED <<swarmVars, callVars, ifaceVars, setup, closeVars, runSnap, otherVars>>

\* checkPeers with a connected peer and an auto device that has neither subnet
\* nor IP: Configure(true), then discoverIP, which gets no subnet within 2 s
\* and deconfigures the device.
RunDiscoverFails ==
    /\ runPc = "checks"
    /\ \E id \in DOMAIN peers : heap[peers[id]].State = "CONNECTED"
    /\ ~Interface.Configured /\ Interface.Auto
    /\ Interface.Subnet = NilSubnet /\ Interface.IP = NilIP
    /\ Interface' = Deconfigure(Configure(Interface, TRUE).tap)
    /\ runPc' = "loop"
    /\ UNCHANGED <<swarmVars, callVars, ActiveInterfaces, setup, closeVars, runSnap, otherVars>>

\* The invocation of Close that is the run loop's own
RunCloser == "close2"

\* The end of a tick on a device whose IsBroken answers true (a device other
\* than TAPDarwin): Run calls p.Close() and goes through it itself.
RunBroken ==
    /\ runPc = "checks" /\ pos[RunCloser] = NotCalled
    /\ pos' = [pos EXCEPT ![RunCloser] = 1]
    /\ runPc' = "close"
    /\ UNCHANGED <<swarmVars, callVars, ifaceVars, setup, Shutdown, ReadyToStop, closed, phase,
                   snap, todo, log, runSnap, otherVars>>

\* Close has returned to Run: the loop goes on.
RunClosed ==
    /\ runPc = "close" /\ pos[RunCloser] = Returned
    /\ runPc' = "loop"
    /\ UNCHANGED <<swarmVars, callVars, ifaceVars, setup, closeVars, runSnap, otherVars>>

\* ------------------------------------------------------------------------
\* Peers and their drivers
\* ------------------------------------------------------------------------
\* The objects a running thread still holds through a snapshot
Held == UNION {{snap[c][id] : id \in DOMAIN snap[c]} : c \in Closers}
           \cup {runSnap[id] : id \in DOMAIN runSnap}

\* A peer reported by the rendezvous is built, put into the swarm and run.
AddPeer(id) ==
    /\ setup = "ok" /\ ~Shutdown
    /\ id \notin DOMAIN peers /\ id \notin Held
    /\ heap' = [heap EXCEPT ![id] = [NewPeer(NilIP, NilMac) EXCEPT !.Running = TRUE]]
    /\ peers' = MapPut(peers, id, id)
    /\ UNCHANGED <<tableIPID, tableMacID, callVars, ifaceVars, setup, closeVars, runVars,
                  otherVars>>

\* The edges the driver of a peer takes, the states between INIT and
\* CONNECTED taken as one step; every state but STOP leads to DISCONNECT.
DriverEdges ==
    {<<"INIT", "CONNECTED">>, <<"INIT", "DISCONNECT">>, <<"CONNECTED", "DISCONNECT">>,
     <<"COOLDOWN", "DISCONNECT">>, <<"DISCONNECT", "COOLDOWN">>, <<"COOLDOWN", "INIT">>,
     <<"COOLDOWN", "STOP">>}

DriverStep(r, to) ==
    /\ heap[r].Running
    /\ <<heap[r].State, to>> \in DriverEdges
    /\ heap' = [heap EXCEPT ![r].State = to]
    /\ UNCHANGED <<peers, tableIPID, tableMacID, callVars, ifaceVars, setup, closeVars,
                   runVars, otherVars>>

\* A running peer learns its overlay address and hardware address from the
\* handshake: they are set on the object, and Swarm.Update is called with it.
PeerLearns(id, ip, mac) ==
    /\ id \in DOMAIN peers /\ heap[peers[id]].Running
    /\ heap[peers[id]].State \in {"INIT", "CONNECTED"}
    /\ LET r == peers[id]
           h == [heap EXCEPT ![r].PeerLocalIP = ip, ![r].PeerHW = mac]
           t == updateTables(tableIPID, tableMacID, id, IPString(ip), MacString(mac))
       IN  /\ heap' = h
           /\ tableIPID' = t.ip
           /\ tableMacID' = t.mac
    /\ UNCHANGED <<peers, callVars, ifaceVars, setup, closeVars, runVars, otherVars>>

\* ------------------------------------------------------------------------
\* The hole-punch mutex
\* ------------------------------------------------------------------------
MaxInstances == 2
Instances == 1..MaxInstances

\* A peer driver: the instance it belongs to and the id of its peer
Drivers == Instances \X Ids

\* A mutex of its own for every peer
HolePunchingOf_perPeer(d) == d

\* The mutex a driver locks: HolePunching is a field of the PeerToPeer its
\* Run was handed (p *PeerToPeer), one mutex for each instance.
HolePunchingOf(d) == d[1]

Mutexes == {HolePunchingOf(d) : d \in Drivers}

\* The driver comes to the point where it punches holes.
DriverConnecting(d) ==
    /\ hpPc[d] = "INIT"
    /\ hpPc' = [hpPc EXCEPT ![d] = "CONNECTING"]
    /\ UNCHANGED HolePunching

\* p.HolePunching.Lock()
HolePunchingLock(d) ==
    /\ hpPc[d] = "CONNECTING"
    /\ ~HolePunching[HolePunchingOf(d)]
    /\ HolePunching' = [HolePunching EXCEPT ![HolePunchingOf(d)] = TRUE]
    /\ hpPc' = [hpPc EXCEPT ![d] = "PUNCHING"]

\* p.HolePunching.Unlock()
HolePunchingUnlock(d) ==
    /\ hpPc[d] = "PUNCHING"
    /\ HolePunching' = [HolePunching EXCEPT ![HolePunchingOf(d)] = FALSE]
    /\ hpPc' = [hpPc EXCEPT ![d] = "CONNECTED"]

\* The peer is lost and its driver starts over.
DriverReconnect(d) ==
    /\ hpPc[d] = "CONNECTED"
    /\ hpPc' = [hpPc EXCEPT ![d] = "INIT"]
    /\ UNCHANGED HolePunching

HolePunchInit ==
    /\ HolePunching = [m \in Mutexes |-> FALSE]
    /\ hpPc = [d \in Drivers |-> "INIT"]

\* ------------------------------------------------------------------------
\* Swarm.RunPeer
\* ------------------------------------------------------------------------
MaxCallers == 2
Callers == 1..MaxCallers

\* l.lock.RLock(): a read lock, which any number of callers hold together
RunPeerRLock(k, id) ==
    /\ rpPc[k] = "idle"
    /\ id \in DOMAIN peers
    /\ rpReaders' = rpReaders \cup {k}
    /\ rpId' = [rpId EXCEPT ![k] = id]
    /\ rpPc' = [rpPc EXCEPT ![k] = "IsRunning"]
    /\ UNCHANGED <<spawned, begun, heap>>

\* NetworkPeer.IsRunning
IsRunning(r) == heap[r].Running

\* if !l.peers[id].IsRunning()
RunPeerIsRunning(k) ==
    /\ rpPc[k] = "IsRunning"
    /\ rpPc' = [rpPc EXCEPT ![k] = IF IsRunning(peers[rpId[k]]) THEN "RUnlock" ELSE "go"]
    /\ UNCHANGED <<rpId, rpReaders, spawned, begun, heap>>

\* go l.peers[id].Run(p)
RunPeerGo(k) ==
    /\ rpPc[k] = "go"
    /\ spawned' = [spawned EXCEPT ![rpId[k]] = @ + 1]
    /\ rpPc' = [rpPc EXCEPT ![k] = "RUnlock"]
    /\ UNCHANGED <<rpId, rpReaders, begun, heap>>

\* defer l.lock.RUnlock()
RunPeerRUnlock(k) ==
    /\ rpPc[k] = "RUnlock"
    /\ rpReaders' = rpReaders \ {k}
    /\ rpPc' = [rpPc EXCEPT ![k] = "returned"]
    /\ UNCHANGED <<rpId, spawned, begun, heap>>

\* A goroutine started by RunPeer begins NetworkPeer.Run, which marks the
\* peer as running.
PeerRun(id) ==
    /\ begun[id] < spawned[id]
    /\ begun' = [begun EXCEPT ![id] = @ + 1]
    /\ heap' = [heap EXCEPT ![peers[id]].Running = TRUE]
    /\ UNCHANGED <<rpPc, rpId, rpReaders, spawned>>

RunPeerInit ==
    /\ rpPc = [k \in Callers |-> "idle"]
    /\ rpId = [k \in Callers |-> 1]
    /\ rpReaders = {}
    /\ spawned = [id \in Ids |-> 0]
    /\ begun = [id \in Ids |-> 0]

\* ------------------------------------------------------------------------
\* PeerToPeer.discoverIP
\* ------------------------------------------------------------------------
\* i := 255
FirstI == 255
\* time.Since(lastRequest) > 2000 ms; > 1500 ms; time.Sleep(100 ms)
SubnetWaitMs  == 2000
ProbeWindowMs == 1500
SleepMs       == 100

\* The /24 networks a peer may answer IP_SUBNET with, as "a.b.c"
Subnets == {"10.1.0"}

\* []byte{sn[0], sn[1], sn[2], byte(i)}
Candidate(sn, b) == sn \o "." \o ToString(b)

\* time.Since(last) > limit, after sleeps that add up to ms: a sleep lasts at
\* least its duration and the loop takes time, so ms = limit is past the limit
Since(ms, limit) == ms >= limit

\* The addresses of the subnet that the connected peers may hold between them
ClaimSets == {{}, {255}, {254}, {254, 253}, 1..254, 1..255, 0..255}

\* What discoverIP and the handlers that answer it leave alone
discoverFrame ==
    <<swarmVars, callVars, ActiveInterfaces, setup, closeVars, runVars, hpVars, rpVars,
      prepVars, newVars, listenVars, getVars, introVars, proxyVars, latVars>>

\* time.Sleep(1 * time.Second), the poll of Run once Shutdown is set
PollMs == 1000

\* A sleep of ms in discoverIP, on the clock that runs from the moment Close
\* has set ReadyToStop; the clock is kept up to one sleep past the poll.
Slept(ms) ==
    IF ~ReadyToStop THEN sinceReady
    ELSE IF sinceReady + ms > PollMs + SleepMs THEN PollMs + SleepMs
    ELSE sinceReady + ms

\* The call: the subnet and the IP are cleared, IP_SUBNET goes to the
\* connected peers, lastRequest := time.Now()
DiscoverCall ==
    /\ dPc = "idle"
    /\ Interface' = [Interface EXCEPT !.Subnet = NilSubnet, !.IP = NilIP]
    /\ dSince' = 0
    /\ dPc' = "subnet"
    /\ claimed' \in ClaimSets
    /\ UNCHANGED <<dI, dQueries>>
    /\ UNCHANGED sinceReady
    /\ UNCHANGED discoverFrame

\* for p.Interface.GetSubnet() == nil: not yet 2 s, sleep
SubnetSleep ==
    /\ dPc = "subnet" /\ Interface.Subnet = NilSubnet
    /\ ~Since(dSince, SubnetWaitMs)
    /\ dSince' = dSince + SleepMs
    /\ UNCHANGED <<Interface, dPc, dI, dQueries, claimed>>
    /\ sinceReady' = Slept(SleepMs)
    /\ UNCHANGED discoverFrame

\* ... 2 s have passed: Deconfigure and return an error
SubnetTimeout ==
    /\ dPc = "subnet" /\ Interface.Subnet = NilSubnet
    /\ Since(dSince, SubnetWaitMs)
    /\ Interface' = Deconfigure(Interface)
    /\ dPc' = "error"
    /\ UNCHANGED <<dI, dSince, dQueries, claimed>>
    /\ UNCHANGED sinceReady
    /\ UNCHANGED discoverFrame

\* The subnet is there: i := 255; lastRequest = time.Unix(0, 0)
SubnetKnown ==
    /\ dPc = "subnet" /\ Interface.Subnet # NilSubnet
    /\ dI' = FirstI
    /\ dSince' = ProbeWindowMs
    /\ dPc' = "probe"
    /\ UNCHANGED <<Interface, dQueries, claimed>>
    /\ UNCHANGED sinceReady
    /\ UNCHANGED discoverFrame

\* The candidate of the last query is held by a peer, which says so.
LastTaken == dQueries # <<>> => dQueries[Len(dQueries)] \in claimed

\* for p.Interface.GetIP() == nil && i > 0, the window has passed: i--, a
\* query for sn[0].sn[1].sn[2].byte(i) is built and sent, then the sleep.
\* (The IP is still nil after a window: the last candidate was taken.)
ProbeQuery ==
    /\ dPc = "probe" /\ Interface.IP = NilIP /\ dI > 0
    /\ Since(dSince, ProbeWindowMs)
    /\ LastTaken
    /\ dI' = dI - 1
    /\ dQueries' = Append(dQueries, (dI - 1) % 256)
    /\ dSince' = SleepMs
    /\ UNCHANGED <<Interface, dPc, claimed>>
    /\ sinceReady' = Slept(SleepMs)
    /\ UNCHANGED discoverFrame

\* ... the window has not passed: sleep
ProbeSleep ==
    /\ dPc = "probe" /\ Interface.IP = NilIP /\ dI > 0
    /\ ~Since(dSince, ProbeWindowMs)
    /\ dSince' = dSince + SleepMs
    /\ UNCHANGED <<Interface, dPc, dI, dQueries, claimed>>
    /\ sinceReady' = Slept(SleepMs)
    /\ UNCHANGED discoverFrame

\* The loop is left: an error if there is still no IP
ProbeEnd ==
    /\ dPc = "probe" /\ (Interface.IP # NilIP \/ dI <= 0)
    /\ dPc' = IF Interface.IP = NilIP THEN "error" ELSE "returned"
    /\ UNCHANGED <<Interface, dI, dSince, dQueries, claimed>>
    /\ UNCHANGED sinceReady
    /\ UNCHANGED discoverFrame

\* A peer answers IP_SUBNET and the handler sets the subnet.
SubnetReply(sn) ==
    /\ dPc = "subnet" /\ Interface.Subnet = NilSubnet
    /\ Interface' = [Interface EXCEPT !.Subnet = sn]
    /\ UNCHANGED discoverVars
    /\ UNCHANGED sinceReady
    /\ UNCHANGED discoverFrame

\* No peer claims the candidate of the last query and, within its window, the
\* handler sets it as the IP of the device.
IPInstalled ==
    /\ dPc = "probe" /\ Interface.IP = NilIP /\ dQueries # <<>>
    /\ ~LastTaken
    /\ Interface' = [Interface EXCEPT
                        !.IP = Candidate(Interface.Subnet, dQueries[Len(dQueries)])]
    /\ UNCHANGED discoverVars
    /\ UNCHANGED sinceReady
    /\ UNCHANGED discoverFrame

\* ------------------------------------------------------------------------
\* PeerToPeer.PrepareInterfaces, RequestIP, ReportIP
\* ------------------------------------------------------------------------
\* interval := 2 * time.Second; attempt >= 3
RequestIntervalMs == 2000
RequestAttempts   == 3

NilNet == "nil-net"     \* a nil *net.IPNet; a network is written as its mask

\* net.CIDRMask(bits, 32) for the prefix lengths used here
MaskOf(bits) == IF bits = 16 THEN "ffff0000" ELSE IF bits = 24 THEN "ffffff00" ELSE "other"

\* The ip argument: a mode word, or a literal with its address text, whether
\* a "/bits" suffix follows and the bits. "10.1.0.300" is no address.
Words == {[mode |-> m, addr |-> "", cidr |-> FALSE, bits |-> 0] :
              m \in {"dhcp", "auto", "discover"}}
Literals ==
    {[mode |-> "literal", addr |-> a, cidr |-> FALSE, bits |-> 0] :
         a \in LocalIPs \cup {"10.1.0.300"}}
    \cup {[mode |-> "literal", addr |-> a, cidr |-> TRUE, bits |-> b] :
         a \in LocalIPs \cup {"10.1.0.300"}, b \in {16, 24, 33}}

\* net.ParseIP: the text of an address and nothing else
ParseIP(x) == IF ~x.cidr /\ x.addr \in LocalIPs THEN x.addr ELSE NilIP

\* net.ParseCIDR: address "/" prefix length
ParseCIDR(x) ==
    IF x.cidr /\ x.addr \in LocalIPs /\ x.bits \in 0..32
    THEN [ok |-> TRUE, ip |-> x.addr, net |-> MaskOf(x.bits)]
    ELSE [ok |-> FALSE, ip |-> NilIP, net |-> NilNet]

\* PeerToPeer.ReportIP on device t: what it returns and leaves behind
ReportIP(x, t, active, dht, env) ==
    LET first  == ParseCIDR(x)
        second == ParseCIDR([x EXCEPT !.cidr = TRUE, !.bits = 24])
        c      == IF first.ok THEN first ELSE second
        fail   == [err |-> TRUE, ip |-> NilIP, mask |-> NilNet, tap |-> t,
                   active |-> active, dht |-> dht, log |-> <<>>]
    IN  IF ~first.ok /\ ParseIP(x) = NilIP THEN fail
        ELSE IF ~c.ok \/ c.net = NilNet THEN fail
        ELSE LET a == AssignInterface(t, active, env.openOk, env.linkOk)
             IN  [err |-> a.err,
                  ip |-> IF a.err THEN NilIP ELSE c.ip,
                  mask |-> IF a.err THEN NilNet ELSE c.net,
                  tap |-> a.tap, active |-> a.active,
                  dht |-> [IP |-> c.ip, Network |-> c.net],
                  log |-> <<"report", "assign">>]

prepFrame ==
    <<swarmVars, callVars, setup, closeVars, runVars, hpVars, rpVars, discoverVars, moreVars>>

\* PrepareInterfaces("dhcp" | "auto"): RequestIP sends its first request.
PrepareRequest(x, env) ==
    /\ pPc = "idle" /\ x.mode \in {"dhcp", "auto"}
    /\ pArg' = x /\ pEnv' = env
    /\ rqAttempt' = 0 /\ rqSince' = 0 /\ rqSent' = 1
    /\ pLog' = Append(pLog, "request")
    /\ pPc' = "RequestIP"
    /\ UNCHANGED <<pRet, Dht, ifaceVars>>
    /\ UNCHANGED prepFrame

\* RequestIP: neither IP nor network yet, the interval has not passed: sleep
RequestSleep ==
    /\ pPc = "RequestIP" /\ Dht.IP = NilIP /\ Dht.Network = NilNet
    /\ ~Since(rqSince, RequestIntervalMs)
    /\ rqSince' = rqSince + SleepMs
    /\ UNCHANGED <<pPc, pArg, pEnv, pRet, pLog, Dht, rqAttempt, rqSent, ifaceVars>>
    /\ UNCHANGED prepFrame

\* The request is sent again without the interval having passed.
RequestAgain_atOnce ==
    /\ pPc = "RequestIP" /\ Dht.IP = NilIP /\ Dht.Network = NilNet
    /\ rqAttempt < RequestAttempts
    /\ rqAttempt' = rqAttempt + 1
    /\ rqSent' = rqSent + 1
    /\ pLog' = Append(pLog, "request")
    /\ rqSince' = SleepMs
    /\ UNCHANGED <<pPc, pArg, pEnv, pRet, Dht, ifaceVars>>
    /\ UNCHANGED prepFrame

\* ... the interval has passed and attempt < 3: the request is sent again
RequestAgain ==
    /\ pPc = "RequestIP" /\ Dht.IP = NilIP /\ Dht.Network = NilNet
    /\ Since(rqSince, RequestIntervalMs)
    /\ rqAttempt < RequestAttempts
    /\ rqAttempt' = rqAttempt + 1
    /\ rqSent' = rqSent + 1
    /\ pLog' = Append(pLog, "request")
    /\ rqSince' = SleepMs
    /\ UNCHANGED <<pPc, pArg, pEnv, pRet, Dht, ifaceVars>>
    /\ UNCHANGED prepFrame

\* ... the interval has passed and attempt >= 3: an error
RequestGiveUp ==
    /\ pPc = "RequestIP" /\ Dht.IP = NilIP /\ Dht.Network = NilNet
    /\ Since(rqSince, RequestIntervalMs)
    /\ rqAttempt >= RequestAttempts
    /\ pRet' = "No IP were received. Swarm is empty"
    /\ pPc' = "returned"
    /\ UNCHANGED <<pArg, pEnv, pLog, Dht, rqAttempt, rqSince, rqSent, ifaceVars>>
    /\ UNCHANGED prepFrame

\* The loop is left with an IP or a network: SetIP(p.Dht.IP), then
\* SetMask(p.Dht.Network.Mask), which has no network to read if only the IP
\* is there; AssignInterface; in PrepareInterfaces SetIP and SetMask again.
RequestAnswered ==
    /\ pPc = "RequestIP" /\ ~(Dht.IP = NilIP /\ Dht.Network = NilNet)
    /\ IF Dht.Network = NilNet
       THEN /\ Interface' = [Interface EXCEPT !.IP = Dht.IP]
            /\ pPc' = "panic"
            /\ UNCHANGED <<pRet, pLog, ActiveInterfaces>>
       ELSE LET a == AssignInterface([Interface EXCEPT !.IP = Dht.IP, !.Mask = Dht.Network],
                                     ActiveInterfaces, pEnv.openOk, pEnv.linkOk)
            IN  /\ Interface' = a.tap
                /\ ActiveInterfaces' = a.active
                /\ pLog' = Append(pLog, "assign")
                /\ pRet' = IF a.err THEN "Failed to configure interface" ELSE "nil"
                /\ pPc' = "returned"
    /\ UNCHANGED <<pArg, pEnv, Dht, rqAttempt, rqSince, rqSent>>
    /\ UNCHANGED prepFrame

\* The rendezvous answers: its reader sets Dht.IP ...
DhtSetIP(ip) ==
    /\ pPc = "RequestIP" /\ Dht.IP = NilIP
    /\ Dht' = [Dht EXCEPT !.IP = ip]
    /\ UNCHANGED <<pPc, pArg, pEnv, pRet, pLog, rqAttempt, rqSince, rqSent, ifaceVars>>
    /\ UNCHANGED prepFrame

\* ... and then Dht.Network.
DhtSetNetwork(bits) ==
    /\ Dht.IP # NilIP /\ Dht.Network = NilNet
    /\ Dht' = [Dht EXCEPT !.Network = MaskOf(bits)]
    /\ UNCHANGED <<pPc, pArg, pEnv, pRet, pLog, rqAttempt, rqSince, rqSent, ifaceVars>>
    /\ UNCHANGED prepFrame

\* PrepareInterfaces("discover")
PrepareAuto(x, env) ==
    /\ pPc = "idle" /\ x.mode = "discover"
    /\ pArg' = x /\ pEnv' = env
    /\ LET a == AssignInterface([Interface EXCEPT !.Auto = TRUE, !.IP = NilIP,
                                                  !.Subnet = NilSubnet],
                                ActiveInterfaces, env.openOk, env.linkOk)
       IN  /\ Interface' = a.tap
           /\ ActiveInterfaces' = a.active
    /\ pLog' = Append(pLog, "assign")
    /\ pRet' = "nil"
    /\ pPc' = "returned"
    /\ UNCHANGED <<Dht, rqAttempt, rqSince, rqSent>>
    /\ UNCHANGED prepFrame

\* PrepareInterfaces with a literal: net.ParseIP(ip), SetIP, ReportIP, SetIP,
\* SetMask
PrepareLiteral(x, env) ==
    /\ pPc = "idle" /\ x.mode = "literal"
    /\ pArg' = x /\ pEnv' = env
    /\ pPc' = "returned"
    /\ IF ParseIP(x) = NilIP
       THEN /\ pRet' = "Failed to parse specified IP"
            /\ UNCHANGED <<pLog, Dht, ifaceVars>>
       ELSE LET r == ReportIP(x, [Interface EXCEPT !.IP = ParseIP(x)], ActiveInterfaces,
                              Dht, env)
            IN  /\ pLog' = pLog \o r.log
                /\ Dht' = r.dht
                /\ ActiveInterfaces' = r.active
                /\ Interface' = IF r.err THEN r.tap
                                ELSE [r.tap EXCEPT !.IP = r.ip, !.Mask = r.mask]
                /\ pRet' = IF r.err THEN "ReportIP failed" ELSE "nil"
    /\ UNCHANGED <<rqAttempt, rqSince, rqSent>>
    /\ UNCHANGED prepFrame

PrepareInit ==
    /\ pPc = "idle"
    /\ pArg = [mode |-> "dhcp", addr |-> "", cidr |-> FALSE, bits |-> 0]
    /\ pEnv = [openOk |-> TRUE, linkOk |-> TRUE]
    /\ pRet = "nil"
    /\ pLog = <<>>
    /\ Dht = [IP |-> NilIP, Network |-> NilNet]
    /\ rqAttempt = 0
    /\ rqSince = 0
    /\ rqSent = 0

DiscoverInit ==
    /\ dPc = "idle"
    /\ dI = FirstI
    /\ dSince = 0
    /\ dQueries = <<>>
    /\ claimed = {}

\* ------------------------------------------------------------------------
\* New with waitForRemotePort
\* ------------------------------------------------------------------------
WaitBudgetMs == 3000
LocalPort    == 4000        \* UDPSocket.GetPort()
EchoPorts    == {4001, 4002}

\* The MAC strings New is given: none, one that parses, one that does not
MacArgs == {"", "06:00:00:00:00:02", "06:zz"}

\* What GenerateMAC draws
Generated == {"06:00:00:00:00:01"}

\* The keys a key file yields, in the order of the file
KeyFiles == {<<>>, <<[Key |-> "k1", Until |-> "t1"]>>,
             <<[Key |-> "k1", Until |-> "t1"], [Key |-> "k2", Until |-> "t2"]>>}

ZeroKey == [Key |-> "", Until |-> ""]

\* Crypter.ReadKeysFromFile: the keys of the file are added to the list and
\* the first of the list is the active one.
ReadKeysFromFile(c, file) ==
    LET keys == c.Keys \o file IN
    IF keys = <<>> THEN c
    ELSE [Keys |-> keys, ActiveKey |-> keys[1], Active |-> TRUE]

\* Crypter.EnrichKeyValues(newKey, key, ttl)
EnrichKeyValues(k, key, ttl) == [k EXCEPT !.Key = key, !.Until = ttl]

\* New, lines 184-197: the key file, then the literal key
SetupKeys(c, file, key, ttl) ==
    LET c1   == IF file # <<>> THEN ReadKeysFromFile(c, file) ELSE c
        ttl1 == IF ttl = "" THEN "default" ELSE ttl
        keys == Append(c1.Keys, EnrichKeyValues(ZeroKey, key, ttl1))
    IN  IF key # "" THEN [Keys |-> keys, ActiveKey |-> keys[1], Active |-> TRUE]
        ELSE c1

newFrame ==
    <<swarmVars, callVars, ActiveInterfaces, setup, closeVars, runVars, hpVars, rpVars,
      discoverVars, prepVars, listenVars, laterVars>>

\* New up to the call of waitForRemotePort: the device object with the MAC
\* validateMac returns, the keys, the socket, its listener and its keep-alive.
NewCall(mac, gen, file, key, ttl) ==
    /\ nPc = "idle"
    /\ nArg' = [mac |-> mac, keyfile |-> file, key |-> key, ttl |-> ttl]
    /\ Interface' = [newTAP EXCEPT !.Mac = validateMac(mac, gen)]
    /\ Crypter' = SetupKeys(Crypter, file, key, ttl)
    /\ nLog' = <<"Init", "Listen", "KeepAlive">>
    /\ wSince' = 0
    /\ nPc' = "wait"
    /\ UNCHANGED <<nRet, remotePort, echoed, wRet>>
    /\ UNCHANGED newFrame

\* The echo reply: the listener stores the port it carries in remotePort.
EchoReply(port) ==
    /\ nPc \in {"wait", "check", "default"}
    /\ echoed \in {0, port}
    /\ remotePort' = port
    /\ echoed' = port
    /\ UNCHANGED <<nPc, nArg, nRet, nLog, Crypter, wSince, wRet, Interface>>
    /\ UNCHANGED newFrame

\* waitForRemotePort: remotePort is 0, the loop sleeps 100 ms and is left
\* when more than 3 s have passed ...
WaitSleep ==
    /\ nPc = "wait" /\ remotePort = 0
    /\ wSince' = wSince + SleepMs
    /\ nPc' = IF Since(wSince', WaitBudgetMs) THEN "check" ELSE "wait"
    /\ UNCHANGED <<nArg, nRet, nLog, Crypter, remotePort, echoed, wRet, Interface>>
    /\ UNCHANGED newFrame

\* ... or remotePort is not 0 and the loop ends.
WaitSeen ==
    /\ nPc = "wait" /\ remotePort # 0
    /\ nPc' = "check"
    /\ UNCHANGED <<nArg, nRet, nLog, Crypter, remotePort, echoed, wSince, wRet, Interface>>
    /\ UNCHANGED newFrame

\* waitForRemotePort, line 273: remotePort is read once more
WaitCheck ==
    /\ nPc = "check"
    /\ IF remotePort = 0
       THEN /\ nPc' = "default"
            /\ nLog' = Append(nLog, "warn")
            /\ UNCHANGED wRet
       ELSE /\ nPc' = "dht"
            /\ wRet' = "nil"
            /\ UNCHANGED nLog
    /\ UNCHANGED <<nArg, nRet, Crypter, remotePort, echoed, wSince, Interface>>
    /\ UNCHANGED newFrame

\* waitForRemotePort, lines 275-276: the local port is stored
WaitDefault ==
    /\ nPc = "default"
    /\ remotePort' = LocalPort
    /\ wRet' = "Didn't receive remote port"
    /\ nPc' = "dht"
    /\ UNCHANGED <<nArg, nRet, nLog, Crypter, echoed, wSince, Interface>>
    /\ UNCHANGED newFrame

\* New from Dht.Init to its return: nil when Dht.Init fails
NewReturn(dhtOk) ==
    /\ nPc = "dht"
    /\ nRet' = IF dhtOk THEN "instance" ELSE "nil"
    /\ nPc' = "returned"
    /\ UNCHANGED <<nArg, nLog, Crypter, remotePort, echoed, wSince, wRet, Interface>>
    /\ UNCHANGED newFrame

NewInit ==
    /\ nPc = "idle"
    /\ nArg = [mac |-> "", keyfile |-> <<>>, key |-> "", ttl |-> ""]
    /\ nRet = "none"
    /\ nLog = <<>>
    /\ Crypter = [Keys |-> <<>>, ActiveKey |-> ZeroKey, Active |-> FALSE]
    /\ remotePort = 0
    /\ echoed = 0
    /\ wSince = 0
    /\ wRet = "none"

\* ------------------------------------------------------------------------
\* PeerToPeer.ListenInterface, the device reader
\* ------------------------------------------------------------------------
MaxReads == 2

\* What ReadPacket returns as error: nil with a packet, errPacketTooBig
\* without one, or the error of the read on the device file
ReadErrors == {"nil", "errPacketTooBig", "read error"}

\* line 117 negated: the device has an IP and is configured
Ready_always(t) == TRUE

Ready(t) == t.IP # NilIP /\ t.Configured

\* line 122: err != nil && err != errPacketTooBig
Fatal_never(err) == FALSE

Fatal(err) == err # "nil" /\ err # "errPacketTooBig"

\* The invocation of Close the reader makes
ListenCloser == "close2"

listenFrame ==
    <<swarmVars, callVars, ActiveInterfaces, setup, Shutdown, ReadyToStop, phase, snap, todo,
      log, runVars, hpVars, rpVars, discoverVars, prepVars, newVars, laterVars>>

\* ListenInterface is called on the prepared instance: p.Interface.Run()
ListenRun ==
    /\ lPc = "idle" /\ setup = "ok"
    /\ Interface' = [Interface EXCEPT !.Status = "InterfaceRunning"]
    /\ lPc' = "loop"
    /\ UNCHANGED <<lErr, lReads, lHandled, pos, closed>>
    /\ UNCHANGED listenFrame

\* if p.Shutdown { break }
ListenBreak ==
    /\ lPc = "loop" /\ Shutdown
    /\ lPc' = "close"
    /\ UNCHANGED <<lErr, lReads, lHandled, pos, closed, Interface>>
    /\ UNCHANGED listenFrame

\* no IP or not configured: sleep 100 ms and continue
ListenSleep ==
    /\ lPc = "loop" /\ ~Shutdown /\ ~Ready(Interface)
    /\ lPc' = "sleep"
    /\ UNCHANGED <<lErr, lReads, lHandled, pos, closed, Interface>>
    /\ UNCHANGED listenFrame

ListenWake ==
    /\ lPc = "sleep"
    /\ lPc' = "loop"
    /\ UNCHANGED <<lErr, lReads, lHandled, pos, closed, Interface>>
    /\ UNCHANGED listenFrame

\* p.Interface.ReadPacket() is called and blocks in the read of the file
ListenRead ==
    /\ lPc = "loop" /\ ~Shutdown /\ Ready(Interface)
    /\ lPc' = "read"
    /\ UNCHANGED <<lErr, lReads, lHandled, pos, closed, Interface>>
    /\ UNCHANGED listenFrame

\* ReadPacket returns. A fatal error: p.Close() is called; otherwise the
\* packet, if there is one, goes to a new handlePacket goroutine.
ReadReturns(err) ==
    /\ lPc = "read"
    /\ Interface.file = "open" \/ err = "read error"
    /\ err = "nil" => lReads < MaxReads
    /\ lErr' = err
    /\ lReads' = IF err = "nil" THEN lReads + 1 ELSE lReads
    /\ IF Fatal(err)
       THEN /\ pos' = [pos EXCEPT ![ListenCloser] = 1]
            /\ lPc' = "closing"
            /\ UNCHANGED lHandled
       ELSE /\ lHandled' = IF err = "nil" THEN lHandled + 1 ELSE lHandled
            /\ lPc' = "loop"
            /\ UNCHANGED pos
    /\ UNCHANGED <<closed, Interface>>
    /\ UNCHANGED listenFrame

\* p.Close() has returned: break
ListenClosed ==
    /\ lPc = "closing" /\ pos[ListenCloser] = Returned
    /\ lPc' = "close"
    /\ UNCHANGED <<lErr, lReads, lHandled, pos, closed, Interface>>
    /\ UNCHANGED listenFrame

\* return p.Interface.Close()
ListenReturn ==
    /\ lPc = "close"
    /\ closed' = [closed EXCEPT !.file = closed.file
                                          + (IF TAPCloseCallsFile(Interface) THEN 1 ELSE 0)]
    /\ Interface' = TAPClose(Interface)
    /\ lPc' = "returned"
    /\ UNCHANGED <<lErr, lReads, lHandled, pos>>
    /\ UNCHANGED listenFrame

ListenInit ==
    /\ lPc = "idle"
    /\ lErr = "nil"
    /\ lReads = 0
    /\ lHandled = 0

\* ------------------------------------------------------------------------
\* Swarm.Get and what a caller does with the map it returns
\* ------------------------------------------------------------------------
\* The references no map holds
Free == {r \in Refs : (\A id \in DOMAIN peers : peers[id] # r)
                      /\ (\A id \in DOMAIN got : got[id] # r)}

getFrame ==
    <<callVars, ifaceVars, setup, closeVars, runVars, hpVars, rpVars, discoverVars, prepVars,
      newVars, listenVars, introVars, tickVars>>

\* Swarm.Get: a new map with the entries of l.peers, the same pointers
SwarmGet ==
    /\ got' = peers
    /\ who' = "get"
    /\ UNCHANGED swarmVars
    /\ UNCHANGED getFrame

\* The caller puts an entry into the map it got, with a peer it has ...
GotAdd(id, r) ==
    /\ who # "none" /\ r \notin Free
    /\ got' = MapPut(got, id, r)
    /\ who' = "caller"
    /\ UNCHANGED swarmVars
    /\ UNCHANGED getFrame

\* ... takes one out ...
GotRemove(id) ==
    /\ id \in DOMAIN got
    /\ got' = MapDel(got, id)
    /\ who' = "caller"
    /\ UNCHANGED swarmVars
    /\ UNCHANGED getFrame

\* ... or sets the state of a peer it reaches through the map, as stopPeers
\* does with peer.SetState.
GotSetState(id, state) ==
    /\ id \in DOMAIN got
    /\ heap' = SetState(heap, got[id], state)
    /\ who' = "caller"
    /\ UNCHANGED <<peers, tableIPID, tableMacID, got>>
    /\ UNCHANGED getFrame

\* Swarm.Update with a peer object the caller has newly made
SwarmUpdateFresh(id, r, ip, mac) ==
    /\ r \in Free
    /\ heap' = [heap EXCEPT ![r] = NewPeer(ip, mac)]
    /\ LET sip  == IF ip # NilIP THEN IPString(ip) ELSE ""
           smac == IF mac # NilMac THEN MacString(mac) ELSE ""
           t    == updateTables(tableIPID, tableMacID, id, sip, smac)
       IN  /\ peers' = MapPut(peers, id, r)
           /\ tableIPID' = t.ip
           /\ tableMacID' = t.mac
    /\ who' = "swarm"
    /\ UNCHANGED got
    /\ UNCHANGED getFrame

\* Swarm.Delete; the object stays as it is for whoever holds it
SwarmDeleteKept(id) ==
    /\ OperateDelete(id)
    /\ who' = "swarm"
    /\ UNCHANGED <<heap, got>>
    /\ UNCHANGED getFrame

GetInit ==
    /\ got = EmptyMap
    /\ who = "none"

\* ------------------------------------------------------------------------
\* The introduction string: PrepareIntroductionMessage and ParseIntroString
\* ------------------------------------------------------------------------
\* A string is written as the sequence of its pieces; a comma is a piece.
RECURSIVE Concat(_)
Concat(s) == IF s = <<>> THEN "" ELSE Head(s) \o Concat(Tail(s))

Commas(s) == {k \in 1..Len(s) : s[k] = ","}

\* strings.Split(intro, ",")
RECURSIVE Split(_)
Split(s) ==
    IF Commas(s) = {} THEN <<Concat(s)>>
    ELSE LET k == CHOOSE k \in Commas(s) : \A j \in Commas(s) : k <= j
         IN  <<Concat(SubSeq(s, 1, k - 1))>> \o Split(SubSeq(s, k + 1, Len(s)))

\* net.UDPAddr, its String() and net.ResolveUDPAddr("udp4", s)
UDPAddrs == [IP : {"1.2.3.4", "5.6.7.8"}, Port : {5000, 5001}]
NilAddr  == [IP |-> "", Port |-> -1]
UDPAddrString(a) == a.IP \o ":" \o ToString(a.Port)
ResolveUDPAddr(s) ==
    IF \E a \in UDPAddrs : UDPAddrString(a) = s
    THEN CHOOSE a \in UDPAddrs : UDPAddrString(a) = s
    ELSE NilAddr

\* net.ParseIP on a field of the string
ParseIPText(s) == IF s \in IPs \cup LocalIPs \cup {"127.0.0.1", "::1"} THEN s ELSE NilIP

NilHs ==
    [ID |-> "", HardwareAddr |-> NilMac, IP |-> NilIP, AutoIP |-> FALSE, Endpoint |-> NilAddr]

\* len(parts) != 4, negated
CountOk_atLeast(parts) == Len(parts) >= 4

CountOk(parts) == Len(parts) = 4

\* ParseIntroString: the handshake and the error
ParseIntroString(intro) ==
    LET parts == Split(intro) IN
    IF ~CountOk(parts)
    THEN [hs |-> NilHs, err |-> "Failed to parse introduction string"]
    ELSE IF ParseMAC(parts[2]) = NilMac
    THEN [hs |-> NilHs, err |-> "Failed to parse MAC address from introduction packet"]
    ELSE IF parts[3] # "auto" /\ ParseIPText(parts[3]) = NilIP
    THEN [hs |-> NilHs, err |-> "Failed to parse IP address from introduction packet"]
    ELSE IF ResolveUDPAddr(parts[4]) = NilAddr
    THEN [hs |-> NilHs, err |-> "Failed to parse handshake endpoint"]
    ELSE [hs  |-> [ID |-> parts[1], HardwareAddr |-> ParseMAC(parts[2]),
                   IP |-> IF parts[3] = "auto" THEN NilIP ELSE ParseIPText(parts[3]),
                   AutoIP |-> parts[3] = "auto", Endpoint |-> ResolveUDPAddr(parts[4])],
          err |-> "nil"]

\* PrepareIntroductionMessage that writes the IP of the device always
PrepareIntroductionMessage_noAuto(t, id, endpoint) ==
    <<id, ",", MacString(t.Mac), ",", IPString(t.IP), ",", endpoint>>

\* PrepareIntroductionMessage: the string id,mac,ip|auto,endpoint
PrepareIntroductionMessage(t, id, endpoint) ==
    LET ip == IF ~t.Auto THEN IPString(t.IP) ELSE "auto"
    IN  <<id, ",", MacString(t.Mac), ",", ip, ",", endpoint>>

\* The ids the rendezvous gives
DhtIDs == {"id-a", "id-b"}

\* The fields of the strings that reach ParseIntroString from the network
FieldsID  == {"id-a", ""}
FieldsMac == {"06:00:00:00:00:01", "06-00-00-00-00-01", "06:zz", ""}
FieldsIP  == {"10.1.0.5", "auto", "::1", "10.1.0.300", "<nil>"}
FieldsEnd == {"1.2.3.4:5000", "1.2.3.4", "nohost:5000"}

Received ==
    LET four == {<<a, ",", b, ",", c, ",", d>> :
                    a \in FieldsID, b \in FieldsMac, c \in FieldsIP, d \in FieldsEnd}
    IN  four \cup {SubSeq(t, 1, 5) : t \in four} \cup {t \o <<",", "x">> : t \in four}

introFrame ==
    <<swarmVars, callVars, ifaceVars, setup, closeVars, runVars, hpVars, rpVars, discoverVars,
      prepVars, newVars, listenVars, getVars, tickVars>>

\* The instance builds the introduction for the peer at addr.
IntroBuild(id, addr) ==
    /\ iPc = "idle"
    /\ iText' = PrepareIntroductionMessage(Interface, id, UDPAddrString(addr))
    /\ iSent' = [ID |-> id, HardwareAddr |-> Interface.Mac,
                 IP |-> IF Interface.Auto THEN NilIP ELSE Interface.IP,
                 AutoIP |-> Interface.Auto, Endpoint |-> addr]
    /\ iPc' = "built"
    /\ UNCHANGED <<iErr, iHs>>
    /\ UNCHANGED introFrame

\* A string comes from the network.
IntroReceive(text) ==
    /\ iPc = "idle"
    /\ iText' = text
    /\ iPc' = "received"
    /\ UNCHANGED <<iSent, iErr, iHs>>
    /\ UNCHANGED introFrame

\* ParseIntroString on the string
IntroParse ==
    /\ iPc \in {"built", "received"}
    /\ LET r == ParseIntroString(iText)
       IN  /\ iHs' = r.hs
           /\ iErr' = r.err
    /\ iPc' = IF iPc = "built" THEN "parsed own" ELSE "parsed"
    /\ UNCHANGED <<iSent, iText>>
    /\ UNCHANGED introFrame

IntroInit ==
    /\ iPc = "idle"
    /\ iSent = NilHs
    /\ iText = <<>>
    /\ iErr = "nil"
    /\ iHs = NilHs

\* ------------------------------------------------------------------------
\* The relays: ProxyManager and PeerToPeer.checkProxies
\* ------------------------------------------------------------------------
MaxProxies == 2
ProxyKeys == 1..MaxProxies

\* The endpoint of relay k, as the rendezvous gives it
ProxyAddr(k) == [IP |-> "5.6.7.8", Port |-> 5000 + k]

proxyActive == "proxyActive"

\* The endpoints of the relays that are active and have an endpoint: the list
\* checkProxies builds, the order of the map left aside.
ActiveList(m) ==
    {m[k].Endpoint : k \in {x \in DOMAIN m : m[x].Endpoint # NilAddr
                                             /\ m[x].Status = proxyActive}}

proxyFrame ==
    <<swarmVars, callVars, ifaceVars, setup, closeVars, runVars, hpVars, rpVars, discoverVars,
      prepVars, newVars, listenVars, getVars, introVars, latVars, pollVars>>

\* The rendezvous names a relay: it joins the pool and is probed.
ProxyAdd(k, addr) ==
    /\ k \notin DOMAIN proxyList
    /\ proxyList' = MapPut(proxyList, k, [Endpoint |-> addr, Status |-> "probing"])
    /\ UNCHANGED <<hasChanges, reported, measured, pxPc>>
    /\ UNCHANGED proxyFrame

\* A relay answers the probe: it becomes active and the set has changed.
ProxyPromote(k) ==
    /\ k \in DOMAIN proxyList /\ proxyList[k].Status = "probing"
    /\ proxyList[k].Endpoint # NilAddr
    /\ proxyList' = [proxyList EXCEPT ![k].Status = proxyActive]
    /\ hasChanges' = TRUE
    /\ UNCHANGED <<reported, measured, pxPc>>
    /\ UNCHANGED proxyFrame

\* ProxyManager.check with the relays of dead found not to answer any more:
\* they become dead, and if one of them was active the set has changed.
ProxyManagerCheck(m, dead) ==
    [k \in DOMAIN m |-> IF k \in dead THEN [m[k] EXCEPT !.Status = "dead"] ELSE m[k]]

\* checkProxies, the whole of it
checkProxies(dead) ==
    LET checked == ProxyManagerCheck(proxyList, dead)
        changes == hasChanges \/ \E k \in dead : proxyList[k].Status = proxyActive
        list    == ActiveList(checked)
    IN  /\ proxyList' = checked
        /\ measured' = list
        /\ IF changes /\ Cardinality(list) > 0
           THEN /\ hasChanges' = FALSE
                /\ reported' = <<list>>
           ELSE /\ hasChanges' = changes
                /\ reported' = <<>>

\* One tick of Run, as far as the relays go
CheckProxies(dead) ==
    /\ pxPc = "tick"
    /\ dead \subseteq {k \in DOMAIN proxyList : proxyList[k].Status # "dead"}
    /\ checkProxies(dead)
    /\ pxPc' = "sleep"
    /\ UNCHANGED proxyFrame

\* time.Sleep(100 * time.Millisecond) and the next turn of the loop
ProxySleep ==
    /\ pxPc = "sleep"
    /\ pxPc' = "tick"
    /\ UNCHANGED <<proxyList, hasChanges, reported, measured>>
    /\ UNCHANGED proxyFrame

ProxyInit ==
    /\ proxyList = EmptyMap
    /\ hasChanges = FALSE
    /\ reported = <<>>
    /\ measured = {}
    /\ pxPc = "tick"

\* ------------------------------------------------------------------------
\* Endpoint.Measure and PeerToPeer.checkPeers
\* ------------------------------------------------------------------------
\* The interval in units of time; time.Since is kept up to the interval, all
\* longer times being alike to Measure.
EndpointLatencyRequestInterval == 2

\* net.IP.To4: the four bytes of an IPv4 address, nil for any other
To4(ip) ==
    CASE ip = "1.2.3.4" -> <<1, 2, 3, 4>>
      [] ip = "5.6.7.8" -> <<5, 6, 7, 8>>
      [] OTHER -> <<>>

\* Endpoint.addrToBytes: 4 bytes of IP and 2 bytes of port, nil (the empty
\* sequence) without address or with an address that is not IPv4
addrToBytes(addr) ==
    IF addr = NilAddr THEN <<>>
    ELSE IF Len(To4(addr.IP)) # 4 THEN <<>>
    ELSE To4(addr.IP) \o <<(addr.Port \div 256) % 256, addr.Port % 256>>

\* The places of an EndpointsHeap: a nil pointer or an Endpoint, LastLatencyQuery
\* kept as the time since it.
NilEndpoint == [nil |-> TRUE, Addr |-> NilAddr, broken |-> FALSE,
                since |-> EndpointLatencyRequestInterval]
NewEndpoint(addr, broken) ==
    [nil |-> FALSE, Addr |-> addr, broken |-> broken,
     since |-> EndpointLatencyRequestInterval]

\* The endpoints a peer driver may put into the heap
EndpointsFound ==
    {NilEndpoint,
     NewEndpoint([IP |-> "1.2.3.4", Port |-> 5000], FALSE),
     NewEndpoint([IP |-> "1.2.3.4", Port |-> 5000], TRUE),
     NewEndpoint([IP |-> "fe80::1", Port |-> 5000], FALSE),
     NewEndpoint(NilAddr, FALSE)}

\* time.Since(e.LastLatencyQuery) < EndpointLatencyRequestInterval
TooSoon_never(since) == FALSE

TooSoon(since) == since < EndpointLatencyRequestInterval

\* Endpoint.Measure with a socket: the endpoint after the call and whether the
\* latency message was sent. createErr: CreateMessageStatic fails.
Measure(e, createErr) ==
    IF e.broken THEN [e |-> e, sent |-> FALSE]
    ELSE IF e.Addr = NilAddr THEN [e |-> e, sent |-> FALSE]
    ELSE IF TooSoon(e.since) THEN [e |-> e, sent |-> FALSE]
    ELSE LET asked == [e EXCEPT !.since = 0]
         IN  IF addrToBytes(asked.Addr) = <<>> THEN [e |-> asked, sent |-> FALSE]
             ELSE IF createErr THEN [e |-> asked, sent |-> FALSE]
             ELSE [e |-> asked, sent |-> TRUE]

latFrame ==
    <<callVars, setup, closeVars, runVars, hpVars, rpVars, discoverVars,
      prepVars, newVars, listenVars, getVars, introVars, proxyVars, pollVars>>

\* The places of all heaps
Places == {x \in Refs \X {1} : Len(EndpointsHeap[x[1]]) = 1}

\* The driver of a peer finds its first endpoint.
EndpointAdd(r, e) ==
    /\ heap[r].Running /\ EndpointsHeap[r] = <<>>
    /\ EndpointsHeap' = [EndpointsHeap EXCEPT ![r] = <<e>>]
    /\ UNCHANGED <<sentAgo, latencyTo, cpPc>>
    /\ UNCHANGED <<swarmVars, ifaceVars>>
    /\ UNCHANGED latFrame

\* checkPeers: the device is auto and has neither subnet nor IP
NeedsDiscover(t) ==
    ~t.Configured /\ t.Auto /\ t.Subnet = NilSubnet /\ t.IP = NilIP

\* checkPeers, the whole of it. hasID: the rendezvous has given the instance
\* its id of 36 characters. discoverIP is the one that gets no subnet.
checkPeers(hasID, createErr) ==
    IF ~hasID
    THEN /\ latencyTo' = {}
         /\ UNCHANGED <<EndpointsHeap, sentAgo, Interface>>
    ELSE LET ranged == {peers[id] : id \in DOMAIN peers}
             m(x)   == Measure(EndpointsHeap[x[1]][x[2]], createErr)
             to     == {x \in Places : x[1] \in ranged
                                       /\ ~EndpointsHeap[x[1]][x[2]].nil /\ m(x).sent}
         IN  /\ Interface' =
                   IF (\E r \in ranged : heap[r].State = "CONNECTED")
                      /\ NeedsDiscover(Interface)
                   THEN Deconfigure(Configure(Interface, TRUE).tap) ELSE Interface
             /\ EndpointsHeap' =
                   [r \in Refs |->
                      IF r \in ranged /\ EndpointsHeap[r] # <<>> /\ ~EndpointsHeap[r][1].nil
                      THEN <<m(<<r, 1>>).e>> ELSE EndpointsHeap[r]]
             /\ latencyTo' = to
             /\ sentAgo' = [x \in Refs \X {1} |-> IF x \in to THEN 0 ELSE sentAgo[x]]

\* One tick of Run, as far as checkPeers goes
CheckPeers(hasID, createErr) ==
    /\ cpPc = "tick" /\ setup = "ok" /\ ~Shutdown
    /\ checkPeers(hasID, createErr)
    /\ cpPc' = "sleep"
    /\ UNCHANGED <<swarmVars, ActiveInterfaces>>
    /\ UNCHANGED latFrame

Later(t, d) ==
    IF t + d > EndpointLatencyRequestInterval THEN EndpointLatencyRequestInterval ELSE t + d

\* The sleep of the loop, with the time d that has passed when the next turn
\* begins
LatencySleep(d) ==
    /\ cpPc = "sleep"
    /\ cpPc' = "tick"
    /\ EndpointsHeap' =
          [r \in Refs |-> IF EndpointsHeap[r] = <<>> \/ EndpointsHeap[r][1].nil
                          THEN EndpointsHeap[r]
                          ELSE <<[EndpointsHeap[r][1] EXCEPT !.since = Later(@, d)]>>]
    /\ sentAgo' = [x \in Refs \X {1} |-> Later(sentAgo[x], d)]
    /\ UNCHANGED latencyTo
    /\ UNCHANGED <<swarmVars, ifaceVars>>
    /\ UNCHANGED latFrame

LatencyInit ==
    /\ EndpointsHeap = [r \in Refs |-> <<>>]
    /\ sentAgo = [x \in Refs \X {1} |-> EndpointLatencyRequestInterval]
    /\ latencyTo = {}
    /\ cpPc = "tick"

OtherInit ==
    /\ HolePunchInit /\ RunPeerInit /\ DiscoverInit /\ PrepareInit /\ NewInit /\ ListenInit
    /\ GetInit /\ IntroInit /\ ProxyInit /\ LatencyInit
    /\ sinceReady = 0

\* ------------------------------------------------------------------------
\* Specifications
\* ------------------------------------------------------------------------
SwarmInit ==
    /\ heap = [r \in Refs |-> NewPeer(NilIP, NilMac)]
    /\ peers = EmptyMap
    /\ tableIPID = EmptyMap
    /\ tableMacID = EmptyMap
    /\ deleted = {}
    /\ lastErr = "nil"

\* The instance as New leaves it; mac is the MAC New was given.
InstanceInit(mac, gen) ==
    /\ Interface = [newTAP EXCEPT !.Mac = validateMac(mac, gen)]
    /\ ActiveInterfaces = <<>>
    /\ setup = "new"
    /\ Shutdown = FALSE
    /\ ReadyToStop = FALSE
    /\ closed = [dht |-> 0, socket |-> 0, file |-> 0]
    /\ pos = [c \in Closers |-> NotCalled]
    /\ phase = [c \in Closers |-> "get"]
    /\ snap = [c \in Closers |-> EmptyMap]
    /\ todo = [c \in Closers |-> {}]
    /\ log = [c \in Closers |-> <<>>]
    /\ runPc = "idle"
    /\ runSnap = EmptyMap

\* The Swarm table alone, under any sequence of Update and Delete calls
InitSwarm ==
    /\ SwarmInit
    /\ InstanceInit("", "06:00:00:00:00:01")
    /\ OtherInit

NextSwarm ==
    \/ /\ \E id \in Ids, ip \in IPs \cup {NilIP}, mac \in Macs \cup {NilMac} :
              SwarmUpdateNew(id, ip, mac)
       /\ UNCHANGED <<ifaceVars, setup, closeVars, runVars, otherVars>>
    \/ /\ \E id \in Ids : SwarmUpdateSame(id)
       /\ UNCHANGED <<ifaceVars, setup, closeVars, runVars, otherVars>>
    \/ /\ \E id \in Ids : SwarmDelete(id)
       /\ UNCHANGED <<ifaceVars, setup, closeVars, runVars, otherVars>>

SpecSwarm == InitSwarm /\ [][NextSwarm]_vars

\* The Swarm table with a caller of Get
NextGet ==
    \/ SwarmGet
    \/ \E id \in Ids, r \in Refs : GotAdd(id, r)
    \/ \E id \in Ids : GotRemove(id)
    \/ \E id \in Ids : GotSetState(id, StopPeersState)
    \/ \E id \in Ids, r \in Refs, ip \in {"10.1.0.5", NilIP} :
          SwarmUpdateFresh(id, r, ip, "06:00:00:00:00:01")
    \/ \E id \in Ids : SwarmDeleteKept(id)

SpecGet == InitSwarm /\ [][NextGet]_vars

\* The instance from New to the end of Close
Init ==
    /\ SwarmInit
    /\ InstanceInit("", "06:00:00:00:00:01")
    /\ OtherInit

Prepare ==
    /\ \E openOk \in BOOLEAN, linkOk \in BOOLEAN :
          \/ \E ip \in LocalIPs : PrepareStatic(ip, openOk, linkOk)
          \/ \E ip \in LocalIPs : PrepareDHCP(ip, openOk, linkOk)
          \/ PrepareDiscover(openOk, linkOk)
    /\ UNCHANGED <<swarmVars, callVars, closeVars, runVars, otherVars>>

\* One invocation c of Close
CloseNext(c) ==
    \/ CloseCall(c)
    \/ CloseDeactivate(c)
    \/ StopPeersGet(c)
    \/ \E id \in Ids : StopPeersSet(c, id)
    \/ StopPeersDrained(c)
    \/ StopPeersTimeout(c)
    \/ CloseShutdown(c)
    \/ CloseStopDHT(c)
    \/ CloseStopSocket(c)
    \/ CloseStopInterface(c)
    \/ CloseReady(c)

\* Everything but Close
OtherNext ==
    \/ Prepare
    \/ RunStart
    \/ RunReturn
    \/ RunGet
    \/ RunRemove
    \/ RunChecks
    \/ RunDiscoverFails
    \/ \E id \in Ids : AddPeer(id)
    \/ \E r \in Refs, to \in PeerStates : DriverStep(r, to)

\* Close is called once
Next ==
    \/ CloseNext("close1")
    \/ OtherNext

Spec == Init /\ [][Next]_vars

\* The introduction string, built by the instance or come from the network;
\* peers are added to the Swarm meanwhile.
NextIntro ==
    \/ Prepare
    \/ \E id \in Ids : AddPeer(id)
    \/ \E id \in DhtIDs, addr \in UDPAddrs : IntroBuild(id, addr)
    \/ \E text \in Received : IntroReceive(text)
    \/ IntroParse

SpecIntro == Init /\ [][NextIntro]_vars

\* The relay pool and the Run loop's checkProxies
NextProxies ==
    \/ \E k \in ProxyKeys : \E addr \in {ProxyAddr(k), NilAddr} : ProxyAdd(k, addr)
    \/ \E k \in ProxyKeys : ProxyPromote(k)
    \/ \E dead \in SUBSET ProxyKeys : CheckProxies(dead)
    \/ ProxySleep

SpecProxies == Init /\ [][NextProxies]_vars

\* The endpoints of the peers and the Run loop's checkPeers
NextLatency ==
    \/ /\ \E ip \in LocalIPs : PrepareStatic(ip, TRUE, TRUE)
       /\ UNCHANGED <<swarmVars, callVars, closeVars, runVars, otherVars>>
    \/ /\ PrepareDiscover(TRUE, TRUE)
       /\ UNCHANGED <<swarmVars, callVars, closeVars, runVars, otherVars>>
    \/ \E id \in Ids : AddPeer(id)
    \/ \E r \in Refs, to \in {"CONNECTED", "DISCONNECT"} : DriverStep(r, to)
    \/ \E r \in Refs, e \in EndpointsFound : EndpointAdd(r, e)
    \/ \E hasID \in BOOLEAN, createErr \in BOOLEAN : CheckPeers(hasID, createErr)
    \/ \E d \in {0, 1} : LatencySleep(d)

SpecLatency == Init /\ [][NextLatency]_vars

\* The run loop and the peers, their drivers and handshakes, with no Close
NextRemove ==
    \/ /\ \E ip \in LocalIPs : PrepareStatic(ip, TRUE, TRUE)
       /\ UNCHANGED <<swarmVars, callVars, closeVars, runVars, otherVars>>
    \/ \E id \in Ids : AddPeer(id)
    \/ \E id \in Ids, ip \in IPs :
          PeerLearns(id, ip, IF id = 1 THEN "06:00:00:00:00:01" ELSE "06:00:00:00:00:02")
    \/ \E r \in Refs, to \in PeerStates : DriverStep(r, to)
    \/ RunStart
    \/ RunGet
    \/ RunRemove
    \/ RunChecks

SpecRemove == Init /\ [][NextRemove]_vars

\* The run loop is scheduled and its sleep ends; the range over the map, whose
\* order Go draws anew each time, comes to begin with any peer of it.
SpecRemoveFair ==
    /\ SpecRemove
    /\ WF_vars(RunStart \/ RunGet \/ RunRemove \/ RunChecks)
    /\ \A id \in Ids : SF_vars(RunRemove /\ id \in DOMAIN peers /\ id \notin DOMAIN peers')

\* Close is called twice, one call after or during the other
NextCloseTwice ==
    \/ \E c \in Closers : CloseNext(c)
    \/ OtherNext

SpecCloseTwice == Init /\ [][NextCloseTwice]_vars

\* The peer drivers of all instances of the process and their mutexes
InitHolePunch ==
    /\ SwarmInit
    /\ InstanceInit("", "06:00:00:00:00:01")
    /\ OtherInit

NextHolePunch ==
    \/ /\ \E d \in Drivers : DriverConnecting(d)
       /\ UNCHANGED <<swarmVars, callVars, ifaceVars, setup, closeVars, runVars, rpVars,
                      discoverVars, prepVars, moreVars>>
    \/ /\ \E d \in Drivers : HolePunchingLock(d)
       /\ UNCHANGED <<swarmVars, callVars, ifaceVars, setup, closeVars, runVars, rpVars,
                      discoverVars, prepVars, moreVars>>
    \/ /\ \E d \in Drivers : HolePunchingUnlock(d)
       /\ UNCHANGED <<swarmVars, callVars, ifaceVars, setup, closeVars, runVars, rpVars,
                      discoverVars, prepVars, moreVars>>
    \/ /\ \E d \in Drivers : DriverReconnect(d)
       /\ UNCHANGED <<swarmVars, callVars, ifaceVars, setup, closeVars, runVars, rpVars,
                      discoverVars, prepVars, moreVars>>

SpecHolePunch == InitHolePunch /\ [][NextHolePunch]_vars

\* Concurrent calls of RunPeer for peers that are in the table and not running
InitRunPeer ==
    /\ heap = [r \in Refs |-> NewPeer(NilIP, NilMac)]
    /\ peers = [id \in Ids |-> id]
    /\ tableIPID = EmptyMap
    /\ tableMacID = EmptyMap
    /\ deleted = {}
    /\ lastErr = "nil"
    /\ InstanceInit("", "06:00:00:00:00:01")
    /\ OtherInit

NextRunPeer ==
    \/ /\ \E k \in Callers, id \in Ids : RunPeerRLock(k, id)
       /\ UNCHANGED <<peers, tableIPID, tableMacID, callVars, ifaceVars, setup, closeVars,
                      runVars, hpVars, discoverVars, prepVars, moreVars>>
    \/ /\ \E k \in Callers : RunPeerIsRunning(k)
       /\ UNCHANGED <<peers, tableIPID, tableMacID, callVars, ifaceVars, setup, closeVars,
                      runVars, hpVars, discoverVars, prepVars, moreVars>>
    \/ /\ \E k \in Callers : RunPeerGo(k)
       /\ UNCHANGED <<peers, tableIPID, tableMacID, callVars, ifaceVars, setup, closeVars,
                      runVars, hpVars, discoverVars, prepVars, moreVars>>
    \/ /\ \E k \in Callers : RunPeerRUnlock(k)
       /\ UNCHANGED <<peers, tableIPID, tableMacID, callVars, ifaceVars, setup, closeVars,
                      runVars, hpVars, discoverVars, prepVars, moreVars>>
    \/ /\ \E id \in Ids : PeerRun(id)
       /\ UNCHANGED <<peers, tableIPID, tableMacID, callVars, ifaceVars, setup, closeVars,
                      runVars, hpVars, discoverVars, prepVars, moreVars>>

SpecRunPeer == InitRunPeer /\ [][NextRunPeer]_vars

\* PrepareInterfaces on the instance New built, called once
Envs == [openOk : BOOLEAN, linkOk : BOOLEAN]

NextPrepare ==
    \/ \E x \in Words, env \in Envs : PrepareRequest(x, env)
    \/ RequestSleep
    \/ RequestAgain
    \/ RequestGiveUp
    \/ RequestAnswered
    \/ \E ip \in LocalIPs : DhtSetIP(ip)
    \/ \E bits \in {16, 24} : DhtSetNetwork(bits)
    \/ \E x \in Words, env \in Envs : PrepareAuto(x, env)
    \/ \E x \in Literals, env \in Envs : PrepareLiteral(x, env)

SpecPrepare == Init /\ [][NextPrepare]_vars

\* The prepared instance with Run and the device reader; Close is called
\* from outside, by the reader, or by both
ClosingNext(c) ==
    \/ CloseDeactivate(c)
    \/ StopPeersGet(c)
    \/ \E id \in Ids : StopPeersSet(c, id)
    \/ StopPeersDrained(c)
    \/ StopPeersTimeout(c)
    \/ CloseShutdown(c)
    \/ CloseStopDHT(c)
    \/ CloseStopSocket(c)
    \/ CloseStopInterface(c)
    \/ CloseReady(c)

\* The run loop on a device that breaks: Close is called by Run itself
NextBroken ==
    \/ /\ \E ip \in LocalIPs : PrepareStatic(ip, TRUE, TRUE)
       /\ UNCHANGED <<swarmVars, callVars, closeVars, runVars, otherVars>>
    \/ \E id \in Ids : AddPeer(id)
    \/ \E r \in Refs, to \in PeerStates : DriverStep(r, to)
    \/ RunStart
    \/ RunReturn
    \/ RunGet
    \/ RunRemove
    \/ RunChecks
    \/ RunBroken
    \/ ClosingNext(RunCloser)
    \/ RunClosed

SpecBroken == Init /\ [][NextBroken]_vars

NextListen ==
    \/ Prepare
    \/ RunStart
    \/ RunReturn
    \/ RunGet
    \/ RunRemove
    \/ RunChecks
    \/ \E id \in Ids : AddPeer(id)
    \/ ListenRun
    \/ ListenBreak
    \/ ListenSleep
    \/ ListenWake
    \/ ListenRead
    \/ \E err \in ReadErrors : ReadReturns(err)
    \/ ListenClosed
    \/ ListenReturn
    \/ CloseNext("close1")
    \/ CloseDeactivate(ListenCloser)
    \/ StopPeersGet(ListenCloser)
    \/ \E id \in Ids : StopPeersSet(ListenCloser, id)
    \/ StopPeersDrained(ListenCloser)
    \/ StopPeersTimeout(ListenCloser)
    \/ CloseShutdown(ListenCloser)
    \/ CloseStopDHT(ListenCloser)
    \/ CloseStopSocket(ListenCloser)
    \/ CloseStopInterface(ListenCloser)
    \/ CloseReady(ListenCloser)

SpecListen == Init /\ [][NextListen]_vars

\* The goroutines of Run, of the reader and of its Close are scheduled, and
\* their sleeps end.
SpecListenFair ==
    /\ SpecListen
    /\ WF_vars(RunReturn \/ RunGet \/ RunRemove \/ RunChecks)
    /\ WF_vars(ListenBreak \/ ListenWake \/ ListenClosed \/ ListenReturn)
    /\ WF_vars(ClosingNext("close1"))
    /\ WF_vars(ClosingNext(ListenCloser))

\* New, with the echo replies that may arrive while it runs
NextNew ==
    \/ \E mac \in MacArgs, gen \in Generated, file \in KeyFiles,
          key \in {"", "k3"}, ttl \in {"", "60s"} : NewCall(mac, gen, file, key, ttl)
    \/ \E port \in EchoPorts : EchoReply(port)
    \/ WaitSleep
    \/ WaitSeen
    \/ WaitCheck
    \/ WaitDefault
    \/ \E dhtOk \in BOOLEAN : NewReturn(dhtOk)

SpecNew == Init /\ [][NextNew]_vars

\* discoverIP, called by checkPeers on an auto device without subnet and IP
\* after Configure(true)
InitDiscover ==
    /\ SwarmInit
    /\ LET a == AssignInterface([newTAP EXCEPT !.Mac = "06:00:00:00:00:01", !.Auto = TRUE,
                                                !.IP = NilIP, !.Subnet = NilSubnet],
                                 <<>>, TRUE, TRUE)
       IN  /\ Interface = Configure(a.tap, TRUE).tap
           /\ ActiveInterfaces = a.active
    /\ setup = "ok"
    /\ Shutdown = FALSE
    /\ ReadyToStop = FALSE
    /\ closed = [dht |-> 0, socket |-> 0, file |-> 0]
    /\ pos = [c \in Closers |-> NotCalled]
    /\ phase = [c \in Closers |-> "get"]
    /\ snap = [c \in Closers |-> EmptyMap]
    /\ todo = [c \in Closers |-> {}]
    /\ log = [c \in Closers |-> <<>>]
    /\ runPc = "checks"
    /\ runSnap = EmptyMap
    /\ OtherInit

NextDiscover ==
    \/ DiscoverCall
    \/ SubnetSleep
    \/ SubnetTimeout
    \/ SubnetKnown
    \/ ProbeQuery
    \/ ProbeSleep
    \/ ProbeEnd
    \/ \E sn \in Subnets : SubnetReply(sn)
    \/ IPInstalled

SpecDiscover == InitDiscover /\ [][NextDiscover]_vars

\* discoverIP, with peers in the swarm and Close called while it runs
NextStop ==
    \/ NextDiscover
    \/ \E id \in Ids : AddPeer(id)
    \/ CloseNext("close1")

SpecStop == InitDiscover /\ [][NextStop]_vars

\* Run inside discoverIP and after it, with a peer in the swarm and Close called
\* from another thread: the tick ends when discoverIP has returned, and the
\* loop goes on or returns.
NextPoll ==
    \/ NextDiscover
    \/ AddPeer(1)
    \/ CloseNext("close1")
    \/ (dPc \in {"error", "returned"} /\ RunChecks)
    \/ RunGet
    \/ RunRemove
    \/ RunReturn

SpecPoll == InitDiscover /\ [][NextPoll]_vars


\* ------------------------------------------------------------------------
\* C1, C2: index consistency of the Swarm table
\* ------------------------------------------------------------------------

\* C1: for every (id, peer) of the table, GetID(peer.ip) returns id and the
\* MAC index maps peer.mac to id (for a peer with an IP / a MAC); and no
\* index maps any key to an id that has been deleted.
C1_IndexConsistency ==
    /\ \A id \in DOMAIN peers :
          LET peer == heap[peers[id]] IN
          /\ peer.PeerLocalIP # NilIP =>
                 /\ GetID(IPString(peer.PeerLocalIP)).ok
                 /\ GetID(IPString(peer.PeerLocalIP)).id = id
          /\ peer.PeerHW # NilMac =>
                 /\ MacString(peer.PeerHW) \in DOMAIN tableMacID
                 /\ tableMacID[MacString(peer.PeerHW)] = id
    /\ \A id \in deleted :
          /\ \A ip \in DOMAIN tableIPID : tableIPID[ip] # id
          /\ \A mac \in DOMAIN tableMacID : tableMacID[mac] # id

\* C2: every entry of the IP index and of the MAC index names an id that is
\* in the primary map and whose peer has exactly that IP / MAC.
C2_IndexesMatchPrimary ==
    /\ \A ip \in DOMAIN tableIPID :
          /\ tableIPID[ip] \in DOMAIN peers
          /\ IPString(heap[peers[tableIPID[ip]]].PeerLocalIP) = ip
    /\ \A mac \in DOMAIN tableMacID :
          /\ tableMacID[mac] \in DOMAIN peers
          /\ MacString(heap[peers[tableMacID[mac]]].PeerHW) = mac

\* ------------------------------------------------------------------------
\* C3: Close is idempotent

\* ------------------------------------------------------------------------
\* C3: a second invocation of Close, after or during the first, has no
\* further effect: the rendezvous, the socket and the device file are closed
\* at most once, and once one invocation has returned no step of another
\* one removes an entry of ActiveInterfaces, writes a peer's state or the
\* table, sets a flag or closes anything.
C3_CloseIdempotent ==
    [][ /\ closed'.dht <= 1 /\ closed'.socket <= 1 /\ closed'.file <= 1
        /\ \A c \in Closers :
              (/\ \E d \in Closers \ {c} : pos[d] = Returned
               /\ pos'[c] # pos[c] \/ phase'[c] # phase[c] \/ todo'[c] # todo[c])
              => /\ ActiveInterfaces' = ActiveInterfaces
                 /\ closed' = closed
                 /\ heap' = heap /\ peers' = peers
                 /\ Shutdown' = Shutdown /\ ReadyToStop' = ReadyToStop ]_vars

\* ------------------------------------------------------------------------
\* C4: the order of the steps of Close
\* ------------------------------------------------------------------------
IsPrefix(s, t) == Len(s) <= Len(t) /\ s = SubSeq(t, 1, Len(s))

OrderOfClose ==
    <<"deactivate", "disconnectPeers", "wait", "shutdown", "closeDht", "closeSocket",
      "closeDevice", "ready">>

OrderAsClaimed ==
    <<"shutdown", "deactivate", "disconnectPeers", "wait", "closeDht", "closeSocket",
      "closeDevice", "ready">>

\* C4 (as amended): every invocation of Close first removes the entry of
\* ActiveInterfaces, then tells the peers to go to DISCONNECT, then waits for
\* the swarm to drain, only then sets Shutdown, then closes the rendezvous,
\* the socket and the device, and sets ReadyToStop last: Shutdown is not set
\* before some invocation has finished its wait, nothing is closed before
\* Shutdown is set, and ReadyToStop is set only after the three closes.
C4_CloseOrder ==
    /\ \A c \in Closers : IsPrefix(log[c], OrderOfClose)
    /\ Shutdown => \E c \in Closers : IsPrefix(SubSeq(OrderOfClose, 1, 4), log[c])
    /\ closed.dht + closed.socket + closed.file > 0 => Shutdown
    /\ ReadyToStop => \E c \in Closers : log[c] = OrderOfClose

\* C4 (as claimed): Shutdown is set first, before the entry of
\* ActiveInterfaces is removed and before any peer is told to disconnect.
C4_CloseOrderAsClaimed ==
    /\ \A c \in Closers : IsPrefix(log[c], OrderAsClaimed)
    /\ (\E c \in Closers : log[c] # <<>>) => Shutdown

\* An invocation of Close has run to its end with peers left in the swarm,
\* each of them told to disconnect.
C4_Witness ==
    /\ log["close1"] = OrderOfClose
    /\ ReadyToStop
    /\ \E id \in DOMAIN peers : heap[peers[id]].State = "DISCONNECT"

\* ------------------------------------------------------------------------
\* C5: the registry of active interfaces
\* ------------------------------------------------------------------------
\* The device has an overlay IP and ActiveInterfaces lists it.
InRegistry ==
    /\ Interface.IP # NilIP
    /\ \E i \in 1..Len(ActiveInterfaces) : ActiveInterfaces[i] = Interface.IP

\* C5: the device's overlay IP is in ActiveInterfaces exactly when the device
\* is configured.
C5_RegisteredIffConfigured == InRegistry <=> Interface.Configured

\* ------------------------------------------------------------------------
\* C6: the hole-punch mutex
\* ------------------------------------------------------------------------
Punching == {d \in Drivers : hpPc[d] = "PUNCHING"}

CloseStepped == pos' # pos \/ phase' # phase \/ todo' # todo
RunStepped   == runPc' # runPc

C8_RunSpawnedOnce == \A id \in Ids : spawned[id] <= 1

\* ------------------------------------------------------------------------
\* C9: removeStoppedPeers

\* ------------------------------------------------------------------------
\* C9: when removeStoppedPeers returns, the table not having changed since it
\* took its snapshot, no peer in state STOP is left in the table.
C9_NoStoppedPeerLeft ==
    [][ (runPc = "remove" /\ runPc' = "checks" /\ runSnap = peers) =>
            \A id \in DOMAIN peers' : heap'[peers'[id]].State # "STOP" ]_vars

\* ------------------------------------------------------------------------
\* C10: the candidates of discoverIP

\* ------------------------------------------------------------------------
\* C10: the IP_INFO queries name the candidates a.b.c.255, a.b.c.254, ...,
\* a.b.c.1 in this order: the k-th query names .(256 - k), and .0 is never
\* named.
C10_CandidatesFrom255To1 ==
    \A k \in 1..Len(dQueries) : dQueries[k] = 256 - k /\ dQueries[k] # 0

\* ------------------------------------------------------------------------
\* C11: the wait for the subnet
\* ------------------------------------------------------------------------
\* discoverIP has returned its error from the wait for the subnet.
SubnetTimedOut == dPc = "error" /\ Interface.Subnet = NilSubnet

\* C11: when discoverIP gives up waiting for the subnet, 2 s have passed
\* since the IP_SUBNET request, the device is deconfigured (status
\* Deconfigured, Configured false) and no IP_INFO query has been built; when
\* a subnet has arrived, discoverIP goes on to probe and the device is not
\* deconfigured.
C11_SubnetWait ==
    /\ SubnetTimedOut =>
          /\ Since(dSince, SubnetWaitMs)
          /\ Interface.Status = "InterfaceDeconfigured" /\ ~Interface.Configured
          /\ dQueries = <<>>
    /\ dQueries # <<>> => Interface.Subnet # NilSubnet
    /\ (dPc \in {"subnet", "probe", "returned"} \/ (dPc = "error" /\ ~SubnetTimedOut))
          => Interface.Status = "InterfaceConfiguring"
    /\ (dPc = "subnet" /\ Interface.Subnet # NilSubnet) => ENABLED SubnetKnown

\* The wait has timed out and the device is deconfigured.
C11_WitnessTimeout == SubnetTimedOut /\ Interface.Status = "InterfaceDeconfigured"

\* ------------------------------------------------------------------------
\* C12: the address discoverIP ends with
\* ------------------------------------------------------------------------
\* The candidates a.b.c.255 ... a.b.c.1 that no peer holds
Unclaimed == (1..255) \ claimed
Largest(S) == CHOOSE x \in S : \A y \in S : y <= x

\* C12: with K of the N = 255 candidate addresses held by peers, discoverIP
\* returns with the largest address that no peer holds installed, having
\* built at most N - K queries (one per window of 1.5 s).
C12_InstallsLargestUnclaimed ==
    (dPc = "returned" /\ claimed \subseteq 1..255 /\ Unclaimed # {}) =>
        /\ Interface.IP = Candidate(Interface.Subnet, Largest(Unclaimed))
        /\ Len(dQueries) <= 255 - Cardinality(claimed)

\* ------------------------------------------------------------------------
\* C13: RequestIP
\* ------------------------------------------------------------------------
RequestedIP == pPc' = "returned" /\ pArg'.mode \in {"dhcp", "auto"}

C14_LiteralAccepted ==
    (/\ pPc = "returned" /\ pArg.mode = "literal"
     /\ pArg.addr \in LocalIPs /\ (pArg.cidr => pArg.bits \in 0..32)
     /\ pEnv.openOk /\ pEnv.linkOk)
    => /\ pRet = "nil"
       /\ pLog = <<"report", "assign">>
       /\ Interface.IP = pArg.addr
       /\ Interface.Mask = MaskOf(IF pArg.cidr THEN pArg.bits ELSE 24)
       /\ Interface.Configured

\* ------------------------------------------------------------------------
\* C15: New given a MAC string that is not empty and does not parse returns
\* no instance and has made no socket call; New given an empty MAC, with the
\* rendezvous client initialised, returns the instance with a generated MAC.
\* ------------------------------------------------------------------------
C15_InvalidMacFails ==
    nPc = "returned" =>
        /\ (nArg.mac # "" /\ ParseMAC(nArg.mac) = NilMac) => (nRet = "nil" /\ nLog = <<>>)
        /\ (nArg.mac = "" /\ nRet # "nil") =>
                (nRet = "instance" /\ Interface.Mac \in Generated)

\* ------------------------------------------------------------------------
\* C16: New given a key file that yields a key and a literal key: the active
\* key is the one built from the literal key, with ttl "default" for an
\* empty ttl, encryption is active and the active key is in the key list.
\* ------------------------------------------------------------------------
InKeys(k) == \E i \in 1..Len(Crypter.Keys) : Crypter.Keys[i] = k

C16_LiteralKeyActive ==
    (nPc # "idle" /\ nArg.keyfile # <<>> /\ nArg.key # "") =>
        /\ Crypter.ActiveKey =
              [Key |-> nArg.key, Until |-> IF nArg.ttl = "" THEN "default" ELSE nArg.ttl]
        /\ Crypter.Active
        /\ InKeys(Crypter.ActiveKey)

\* ------------------------------------------------------------------------
\* C17: waitForRemotePort ends within its 3 s; when it has returned,
\* remotePort is the port of the echo reply and nil was returned, or no reply
\* has arrived, remotePort is the local port, the warning was given and an
\* error was returned.
\* ------------------------------------------------------------------------
C17_RemotePort ==
    /\ wSince <= WaitBudgetMs
    /\ nPc \in {"dht", "returned"} =>
          \/ echoed # 0 /\ remotePort = echoed /\ wRet = "nil"
          \/ echoed = 0 /\ remotePort = LocalPort /\ wRet = "Didn't receive remote port"
                        /\ nLog[Len(nLog)] = "warn"

\* ------------------------------------------------------------------------
\* C18: a read of the device that fails with an error other than
\* errPacketTooBig makes the reader call Close at once, and if Run is active
\* then, Run returns in the end. (IsBroken is false on this device, so the
\* run loop itself never calls Close.)
\* ------------------------------------------------------------------------
RunActive == runPc \in {"loop", "remove", "checks"}
Broken    == IsBroken(Interface) \/ lErr = "read error"

C18_BrokenDeviceFatal ==
    /\ [](Broken => pos[ListenCloser] # NotCalled)
    /\ (Broken /\ RunActive) ~> (runPc = "returned")

\* Run has returned after the reader, and nobody else, called Close.
C18_Witness ==
    /\ lErr = "read error" /\ pos["close1"] = NotCalled
    /\ runPc = "returned"

\* ------------------------------------------------------------------------
\* C19: once Shutdown is set, a loop that comes to its next iteration does
\* no more work: the run loop starts no tick, the device reader starts no
\* read, discoverIP builds no query and RequestIP sends no request.
\* ------------------------------------------------------------------------
C19_LoopsStopOnShutdown ==
    [][ Shutdown =>
          /\ ~(runPc = "loop" /\ runPc' = "remove")
          /\ ~(lPc = "loop" /\ lPc' = "read")
          /\ dQueries' = dQueries
          /\ rqSent' = rqSent ]_vars

\* ------------------------------------------------------------------------
\* C20: the reader calls ReadPacket only on a device that has an IP and is
\* configured; when ReadPacket returns errPacketTooBig the reader goes on
\* with its loop and Close is not called; when it returns another error the
\* reader calls Close and reads no more; every packet ReadPacket returns is
\* given to a handlePacket goroutine.
\* ------------------------------------------------------------------------
ReadReturned == lPc = "read" /\ lPc' # "read"

C20_DeviceReader ==
    [][ /\ lPc' = "read" => (Interface'.IP # NilIP /\ Interface'.Configured)
        /\ (ReadReturned /\ lErr' = "errPacketTooBig") =>
              (lPc' = "loop" /\ pos' = pos /\ lHandled' = lHandled)
        /\ (ReadReturned /\ lErr' = "read error") =>
              (lPc' = "closing" /\ pos[ListenCloser] = NotCalled /\ pos'[ListenCloser] = 1)
        /\ lErr = "read error" => (lPc' \in {"closing", "close", "returned"} /\ lErr' = lErr)
        /\ (ReadReturned /\ lErr' = "nil") =>
              (lPc' = "loop" /\ pos' = pos /\ lHandled' = lHandled + 1)
        /\ lPc' # "read" => lHandled' = lReads' ]_vars

\* The reader has handed on two packets, then got a fatal error, called Close
\* and returned.
C20_Witness ==
    /\ lPc = "returned" /\ lErr = "read error" /\ lHandled = MaxReads
    /\ pos[ListenCloser] = Returned

\* ------------------------------------------------------------------------
\* C21: what the caller does to the map Swarm.Get returned, entries added,
\* entries removed, a peer record changed through it, leaves the Swarm table
\* with its peer records and both indexes as they are; an Update or Delete
\* of the Swarm leaves the map returned earlier, with its peer records, as
\* it is.
\* ------------------------------------------------------------------------
TableView == [id \in DOMAIN peers |-> heap[peers[id]]]
GotView   == [id \in DOMAIN got |-> heap[got[id]]]

C21_GetIsSnapshot ==
    [][ /\ who' = "caller" =>
              (TableView' = TableView /\ tableIPID' = tableIPID /\ tableMacID' = tableMacID)
        /\ who' = "swarm" => GotView' = GotView ]_vars

\* ------------------------------------------------------------------------
\* C22: Swarm.Delete of an id the table does not hold leaves the table and
\* both indexes as they are, and what its caller gets differs from what the
\* caller of a Delete that removed an entry gets.
\* ------------------------------------------------------------------------
C22_DeleteOfAbsentReported ==
    [][ lastErr' = "can't delete peer: entry doesn't exists" =>
          /\ peers' = peers /\ tableIPID' = tableIPID /\ tableMacID' = tableMacID
          /\ DeleteReturns(lastErr') # DeleteReturns("nil") ]_vars

\* ------------------------------------------------------------------------
\* C23: ParseIntroString gives an error and no handshake for a string that
\* has not exactly 4 comma-separated fields, or whose MAC field does not
\* parse, or whose IP field is neither "auto" nor an IP, or whose endpoint
\* does not resolve; and parsing leaves the Swarm table as it is.
\* ------------------------------------------------------------------------
BadIntro(text) ==
    LET parts == Split(text) IN
    \/ Len(parts) # 4
    \/ parts[2] \notin {"06:00:00:00:00:01", "06:00:00:00:00:02", "06-00-00-00-00-01"}
    \/ parts[3] \notin {"auto", "10.1.0.5", "10.1.0.6", "10.1.0.7", "127.0.0.1", "::1"}
    \/ \A a \in UDPAddrs : UDPAddrString(a) # parts[4]

C23_BadIntroRejected ==
    [][ (iPc # iPc' /\ iPc' \in {"parsed", "parsed own"}) =>
          /\ BadIntro(iText) => (iErr' # "nil" /\ iHs' = NilHs)
          /\ UNCHANGED swarmVars ]_vars

\* A string of 3 fields has been rejected with peers in the table.
C23_Witness ==
    /\ iPc = "parsed" /\ Len(Split(iText)) = 3 /\ iErr = "Failed to parse introduction string"
    /\ peers # EmptyMap

\* ------------------------------------------------------------------------
\* C24: the string PrepareIntroductionMessage builds on a device with a
\* valid MAC and a valid IPv4 address or in auto mode, for an endpoint
\* host:port, is parsed by ParseIntroString without error into the same id,
\* MAC, IP, endpoint, with AutoIP true exactly for a device in auto mode.
\* ------------------------------------------------------------------------
C24_IntroRoundTrip ==
    (/\ iPc = "parsed own"
     /\ iSent.HardwareAddr # NilMac
     /\ iSent.AutoIP \/ iSent.IP # NilIP) =>
        /\ iErr = "nil"
        /\ iHs = iSent

\* An introduction built in auto mode has been parsed.
C24_Witness == iPc = "parsed own" /\ iSent.AutoIP /\ iErr = "nil" /\ iHs.ID = "id-b"

\* ------------------------------------------------------------------------
\* C25: whenever the set of active relays has changed since the last report
\* (hasChanges), also when it has become empty, the tick's checkProxies hands
\* the current active set to the rendezvous and clears the flag; when the set
\* has not changed, it sends no report.
\* ------------------------------------------------------------------------
CheckProxiesStep == pxPc = "tick" /\ pxPc' = "sleep"

C25_ChangesReported ==
    [][CheckProxiesStep =>
          /\ hasChanges => (~hasChanges' /\ reported' = <<ActiveList(proxyList')>>)
          /\ (~hasChanges /\ ActiveList(proxyList') = ActiveList(proxyList))
                => reported' = <<>>]_vars

\* ------------------------------------------------------------------------
\* C26: in a run tick, latency messages go only to endpoints of peers whose
\* state is CONNECTED, to no endpoint of a peer in another state.
\* ------------------------------------------------------------------------
CheckPeersStep == cpPc = "tick" /\ cpPc' = "sleep"

C26_ProbesOnlyConnected ==
    [][CheckPeersStep => \A x \in latencyTo' : heap[x[1]].State = "CONNECTED"]_vars

\* ------------------------------------------------------------------------
\* C27: two consecutive latency messages Measure sends to an endpoint are at
\* least EndpointLatencyRequestInterval apart, however often Measure is
\* called; and none is sent to an endpoint that is broken, has no address or
\* has an address that is not IPv4.
\* ------------------------------------------------------------------------
IsIPv4(addr) == addr # NilAddr /\ addr.IP \in {"1.2.3.4", "5.6.7.8"}

C27_LatencyRateLimited ==
    [][CheckPeersStep =>
          \A x \in latencyTo' :
              /\ sentAgo[x] >= EndpointLatencyRequestInterval
              /\ ~EndpointsHeap[x[1]][x[2]].broken
              /\ IsIPv4(EndpointsHeap[x[1]][x[2]].Addr)]_vars

\* Measure was called on an endpoint it had sent to less than the interval
\* before and has sent nothing, nor has it to an endpoint that is broken
\* or to one with an IPv6 address.
C27_Witness ==
    /\ cpPc = "sleep"
    /\ \E x \in Places : /\ x[1] \in {peers[id] : id \in DOMAIN peers}
                         /\ IsIPv4(EndpointsHeap[x[1]][1].Addr)
                         /\ ~EndpointsHeap[x[1]][1].broken
                         /\ sentAgo[x] = 1
                         /\ x \notin latencyTo
    /\ \E x \in Places : /\ x[1] \in {peers[id] : id \in DOMAIN peers}
                         /\ ~EndpointsHeap[x[1]][1].nil
                         /\ (EndpointsHeap[x[1]][1].broken
                             \/ ~IsIPv4(EndpointsHeap[x[1]][1].Addr))
                         /\ x \notin latencyTo

\* ------------------------------------------------------------------------
\* C28: while the instance runs and is not shut down, a peer that has come to
\* STOP (and stays there) is eventually removed from the Swarm table by the
\* run loop, and with it the entries of the IP and MAC indexes that name it.
\* ------------------------------------------------------------------------
InStop(id) == id \in DOMAIN peers /\ heap[peers[id]].State = "STOP"

Indexed(id) ==
    \/ \E ip \in DOMAIN tableIPID : tableIPID[ip] = id
    \/ \E mac \in DOMAIN tableMacID : tableMacID[mac] = id

C28_StoppedPeerRemoved ==
    \A id \in Ids : InStop(id) ~> (id \notin DOMAIN peers /\ ~Indexed(id))

\* The part that is about the table alone
StoppedPeerLeavesTable ==
    \A id \in Ids : InStop(id) ~> (id \notin DOMAIN peers)

\* ------------------------------------------------------------------------
\* C29: a peer the run loop has deleted from the Swarm table is not put back
\* by a Close that runs at the same time: no step of the loop of stopPeers
\* adds an id to the table.
\* ------------------------------------------------------------------------
StopPeersStep(c) == phase[c] = "loop" /\ todo'[c] # todo[c]

C29_NoReinsertByClose ==
    [][\A c \in Closers : StopPeersStep(c) => DOMAIN peers' \subseteq DOMAIN peers]_vars

\* ------------------------------------------------------------------------
\* C30: if every peer driver reaches STOP after it was told to disconnect,
\* Close returns with an empty Swarm table before its wait of 5 s is over,
\* whichever thread calls it. Here for the Close that the run loop itself
\* calls on a broken device: when its stopPeers leaves the wait with every
\* peer of the table in STOP, the table is empty.
\* ------------------------------------------------------------------------
WaitEnds(c) ==
    /\ pos[c] \in 1..Len(CloseSteps) /\ CloseSteps[pos[c]] = "stopPeers"
    /\ phase[c] = "loop" /\ todo[c] = {}
    /\ pos'[c] # pos[c]

ReadyImpliesShutdown == ReadyToStop => Shutdown

CloseLeavesBothFlags == \A c \in Closers : pos[c] = Returned => (Shutdown /\ ReadyToStop)

RunReturnsWithBothFlags == runPc = "returned" => (Shutdown /\ ReadyToStop)

RunReturnsWithinPoll == (ReadyToStop /\ runPc # "returned") => sinceReady <= PollMs

C31_FlagsAndRunReturn ==
    /\ ReadyImpliesShutdown
    /\ CloseLeavesBothFlags
    /\ RunReturnsWithBothFlags
    /\ RunReturnsWithinPoll

\* The three parts about the flags alone
FlagsOnly == ReadyImpliesShutdown /\ CloseLeavesBothFlags /\ RunReturnsWithBothFlags

\* ------------------------------------------------------------------------
\* C32: when RequestIP leaves its wait loop without the error, the IP and the
\* network the rendezvous assigns are both set, however the loop interleaves
\* with the callback that sets the one and then the other; RequestIP never
\* reads the mask of a network that is not set.
\* ------------------------------------------------------------------------
LeavesWaitLoop == pPc = "RequestIP" /\ pPc' # "RequestIP"

C32_BothSetWhenLoopLeft ==
    [][LeavesWaitLoop =>
          \/ pRet' = "No IP were received. Swarm is empty"
          \/ (Dht.IP # NilIP /\ Dht.Network # NilNet /\ pPc' = "returned")]_vars

\* ------------------------------------------------------------------------
\* C33: the device file is closed at most once in the life of an instance:
\* stopInterface in Close and the reader closing the device after its loop
\* (also after the reader called Close itself on a read error) never close a
\* device that is closed already.
\* ------------------------------------------------------------------------
C33_DeviceClosedOnce == closed.file <= 1

\* The same with no Close but the one the reader calls itself.
ReaderAloneClosesOnce == pos["close1"] = NotCalled => closed.file <= 1

====
